---- MODULE Spec2Model ----
(***************************************************************************)
(* Outbound request orchestration of vinyl-dash: the sliding-window rate   *)
(* limiter (server/rateLimiter.ts) and the request queue with              *)
(* deduplication, batching and backoff retry (server/requestQueue.ts), the  *)
(* client wrapper (server/apiClient.ts) and the cache (server/redis.ts).   *)
(*                                                                         *)
(* The runtime is a single-threaded event loop.  One action is one run of  *)
(* a handler from its start to its next yield point (await / return), so   *)
(* the synchronous calls a handler makes are part of its action.           *)
(***************************************************************************)
EXTENDS Integers, Sequences, FiniteSets, TLC

VARIABLES
  now,               \* Date.now(), in ms
  limiters,          \* rateLimiter.ts: limiters   (name -> RateLimiter)
  queues,            \* requestQueue.ts: queues    (api -> QueuedRequest[])
  inFlightRequests,  \* requestQueue.ts: inFlightRequests (key -> InFlightRequest)
  timers,            \* pending setTimeout callbacks
  running,           \* drain cycles suspended at `await queuedRequest.requestFn()`
  callers,           \* one entry per enqueueRequest call: the returned promise
  invocations,       \* history: every call of a requestFn, in order
  fetches,           \* history: the arguments of every fetchWithRateLimit call
  redis,             \* redis.ts: the client handle, "null" or its connection status
  store,             \* what the cache backend holds (key -> text, expiry)
  lastGet,           \* history: the getCache call made last, if no setCache followed
  lastSet,           \* history: the setCache call made last
  cacheOps,          \* number of cache calls made
  budget,            \* what the environment may still do in this run
  clientInFlight,    \* browser api module: inFlightRequests (key -> Promise)
  clientPromises,    \* one entry per promise getOrCreateRequest created
  clientCalls        \* history: every getOrCreateRequest call, in order

cacheVars == <<redis, store, lastGet, lastSet, cacheOps>>

clientVars == <<clientInFlight, clientPromises, clientCalls>>

queueVars == <<limiters, queues, inFlightRequests, timers, running, callers,
               invocations, fetches>>

vars == <<now, limiters, queues, inFlightRequests, timers, running, callers,
          invocations, fetches, redis, store, lastGet, lastSet, cacheOps, budget,
          clientInFlight, clientPromises, clientCalls>>

----------------------------------------------------------------------------
(* Program constants *)

batchSize == 5
maxRetries == 5
baseBackoffDelay == 1000
maxBackoffDelay == 60000
StaleMs == 5 * 60 * 1000
InterBatchDelay == 100

(* Bounds of the model *)

MaxEnqueues == 4      \* enqueueRequest calls in a run
MaxFailures == 6      \* failing attempts in a run
MaxTicks == 1         \* clock advances that are not a jump to a timer deadline
TickStep == 500
MaxCacheOps == 3      \* getCache / setCache calls in a run
MaxCacheTicks == 3    \* clock advances in a run of the cache
MaxClientCalls == 4   \* getOrCreateRequest calls in a run of the browser module
MaxCreates == 2       \* createRateLimiter calls after module load
MaxRecords == 3       \* recordRequest calls in a run of the limiter on its own

APIs == {"discogs", "getsongbpm"}

\* a resource name for which createRateLimiter was never called
Unregistered == "other"

\* the names enqueueRequest may be called with (`queues.get(api) || []`)
Resources == APIs \cup {Unregistered}

NoKey == ""           \* dedupeKey undefined (or empty): falsy in `if (dedupeKey)`
Undefined == -1       \* retryAfter / waitMs undefined
Null == 0             \* getInFlightRequest found nothing

NoRequest == [id |-> 0, dedupeKey |-> NoKey, retryCount |-> 0, retryAfter |-> Undefined]

NaN == -2             \* the number NaN (falsy; NaN !== undefined)

(* An HTTP response as the wrapper reads it: its status and what           *)
(* response.headers.get('Retry-After') returns, null (Absent) or a string  *)
(* of code units.                                                          *)
Absent == [present |-> FALSE, text |-> <<>>]

Header(text) == [present |-> TRUE, text |-> text]

Response(status, retryAfterHeader) == [status |-> status, retryAfter |-> retryAfterHeader]

NoResponse == Response(0, Absent)

(* What an attempt of an operation produces: a value, or a thrown value.   *)
(*   isError : thrown value is `instanceof Error`                          *)
(*   marker  : its message includes '429' or 'Rate limit'                  *)
(*   retryAfter : its retryAfter property (seconds), or Undefined          *)
(*   wrapped : it was built by `new Error(String(error))` at rejection     *)
(*   tag     : which attempt of the request produced it                    *)
(*   from429 : it is the Error fetchWithRateLimit builds for a response    *)
(*             with status 429 (apiClient.ts line 174)                     *)
NoOutcome ==
  [ok |-> FALSE, value |-> "", isError |-> FALSE, marker |-> FALSE,
   retryAfter |-> Undefined, wrapped |-> FALSE, tag |-> 0, from429 |-> FALSE,
   \* the response the wrapper's operation received, if it received one
   response |-> NoResponse]

Success(v, n) == [NoOutcome EXCEPT !.ok = TRUE, !.value = v, !.tag = n]

\* `Rate limit exceeded (429). Retry-After: ...`, with its retryAfter property
RateLimitFailure(h, n) ==
  [NoOutcome EXCEPT !.isError = TRUE, !.marker = TRUE, !.retryAfter = h, !.tag = n,
                    !.from429 = TRUE]

\* an Error of any other origin whose message holds '429' or 'Rate limit',
\* such as `connect ECONNREFUSED 10.0.0.7:4290`
MarkedFailure(n) == [NoOutcome EXCEPT !.isError = TRUE, !.marker = TRUE, !.tag = n]

OtherFailure(n) == [NoOutcome EXCEPT !.isError = TRUE, !.tag = n]

NonErrorThrow(n) == [NoOutcome EXCEPT !.value = "thrown", !.tag = n]

Min(S) == CHOOSE x \in S : \A y \in S : x <= y

Pow2(n) == IF n <= 0 THEN 1 ELSE 2 ^ n

----------------------------------------------------------------------------
(* rateLimiter.ts *)

\* (variant: the limiter is created anew on every call)
createRateLimiter_Overwrite(lims, name, maxRequests, windowMs) ==
  LET limiter == [maxRequests |-> maxRequests, windowMs |-> windowMs,
                  timestamps |-> <<>>]
  IN [limiter |-> limiter,
      limiters |-> [n \in DOMAIN lims \cup {name} |->
                      IF n = name THEN limiter ELSE lims[n]]]

\* createRateLimiter(name, maxRequests, windowMs), lines 37-51: the limiter
\* returned and the map after the call
createRateLimiter(lims, name, maxRequests, windowMs) ==
  IF name \in DOMAIN lims
    THEN [limiter |-> lims[name], limiters |-> lims]
    ELSE LET limiter == [maxRequests |-> maxRequests, windowMs |-> windowMs,
                         timestamps |-> <<>>]
         IN [limiter |-> limiter,
             limiters |-> [n \in DOMAIN lims \cup {name} |->
                             IF n = name THEN limiter ELSE lims[n]]]

\* initializeRateLimiters(), lines 104-110
initializeRateLimiters(lims) ==
  createRateLimiter(createRateLimiter(lims, "discogs", 25, 60000).limiters,
                    "getsongbpm", 50, 60000).limiters

Prune(ts, windowStart) == SelectSeq(ts, LAMBDA x : x > windowStart)

\* (variant: the limit test admits one call too many)
canMakeRequest_Inclusive(lims, limiterName, t) ==
  IF limiterName \notin DOMAIN lims
    THEN [allowed |-> TRUE, waitMs |-> Undefined, limiters |-> lims]
    ELSE LET limiter == lims[limiterName]
             kept == SelectSeq(limiter.timestamps, LAMBDA x : x > t - limiter.windowMs)
             lims1 == [lims EXCEPT ![limiterName].timestamps = kept]
         IN IF Len(kept) <= limiter.maxRequests
              THEN [allowed |-> TRUE, waitMs |-> Undefined, limiters |-> lims1]
              ELSE LET w == kept[1] + limiter.windowMs - t
                   IN [allowed |-> FALSE,
                       waitMs |-> IF w > 0 THEN w ELSE 0,
                       limiters |-> lims1]

\* (variant: a name without a limiter is refused)
canMakeRequest_DenyUnknown(lims, limiterName, t) ==
  IF limiterName \notin DOMAIN lims
    THEN [allowed |-> FALSE, waitMs |-> 1000, limiters |-> lims]
    ELSE LET limiter == lims[limiterName]
             kept == SelectSeq(limiter.timestamps, LAMBDA x : x > t - limiter.windowMs)
             lims1 == [lims EXCEPT ![limiterName].timestamps = kept]
         IN IF Len(kept) < limiter.maxRequests
              THEN [allowed |-> TRUE, waitMs |-> Undefined, limiters |-> lims1]
              ELSE LET w == kept[1] + limiter.windowMs - t
                   IN [allowed |-> FALSE,
                       waitMs |-> IF w > 0 THEN w ELSE 0,
                       limiters |-> lims1]

\* (variant: the wait is measured from the newest entry)
canMakeRequest_WaitNewest(lims, limiterName, t) ==
  IF limiterName \notin DOMAIN lims
    THEN [allowed |-> TRUE, waitMs |-> Undefined, limiters |-> lims]
    ELSE LET limiter == lims[limiterName]
             kept == SelectSeq(limiter.timestamps, LAMBDA x : x > t - limiter.windowMs)
             lims1 == [lims EXCEPT ![limiterName].timestamps = kept]
         IN IF Len(kept) < limiter.maxRequests
              THEN [allowed |-> TRUE, waitMs |-> Undefined, limiters |-> lims1]
              ELSE LET w == kept[Len(kept)] + limiter.windowMs - t
                   IN [allowed |-> FALSE,
                       waitMs |-> IF w > 0 THEN w ELSE 0,
                       limiters |-> lims1]

\* (variant: the expired timestamps are left in the list)
canMakeRequest_NoPrune(lims, limiterName, t) ==
  IF limiterName \notin DOMAIN lims
    THEN [allowed |-> TRUE, waitMs |-> Undefined, limiters |-> lims]
    ELSE LET limiter == lims[limiterName]
             kept == SelectSeq(limiter.timestamps, LAMBDA x : x > t - limiter.windowMs)
         IN IF Len(kept) < limiter.maxRequests
              THEN [allowed |-> TRUE, waitMs |-> Undefined, limiters |-> lims]
              ELSE LET w == kept[1] + limiter.windowMs - t
                   IN [allowed |-> FALSE,
                       waitMs |-> IF w > 0 THEN w ELSE 0,
                       limiters |-> lims]

\* canMakeRequest: prunes the list (a side effect kept in .limiters) and
\* answers allowed, or not allowed with the time until the oldest entry expires.
canMakeRequest(lims, limiterName, t) ==
  IF limiterName \notin DOMAIN lims
    THEN [allowed |-> TRUE, waitMs |-> Undefined, limiters |-> lims]
    ELSE LET limiter == lims[limiterName]
             kept == Prune(limiter.timestamps, t - limiter.windowMs)
             lims1 == [lims EXCEPT ![limiterName].timestamps = kept]
         IN IF Len(kept) < limiter.maxRequests
              THEN [allowed |-> TRUE, waitMs |-> Undefined, limiters |-> lims1]
              ELSE LET w == kept[1] + limiter.windowMs - t
                   IN [allowed |-> FALSE,
                       waitMs |-> IF w > 0 THEN w ELSE 0,
                       limiters |-> lims1]

\* (variant: one timestamp list shared by all resources)
recordRequest_Shared(lims, limiterName, t) ==
  [n \in DOMAIN lims |->
     [lims[n] EXCEPT !.timestamps = Prune(Append(@, t), t - lims[n].windowMs)]]

\* (variant: the new timestamp is put at the head of the list)
recordRequest_Prepend(lims, limiterName, t) ==
  IF limiterName \notin DOMAIN lims
    THEN lims
    ELSE LET limiter == lims[limiterName]
         IN [lims EXCEPT ![limiterName].timestamps =
               Prune(<<t>> \o limiter.timestamps, t - limiter.windowMs)]

recordRequest(lims, limiterName, t) ==
  IF limiterName \notin DOMAIN lims
    THEN lims
    ELSE LET limiter == lims[limiterName]
         IN [lims EXCEPT ![limiterName].timestamps =
               Prune(Append(limiter.timestamps, t), t - limiter.windowMs)]

----------------------------------------------------------------------------
(* requestQueue.ts *)

\* (variant: the exponent is the retry count after the increment)
calculateBackoffDelay_AfterIncrement(retryCount, retryAfter) ==
  IF retryAfter # Undefined
    THEN retryAfter * 1000
    ELSE LET d == baseBackoffDelay * Pow2(retryCount + 1)
         IN IF d < maxBackoffDelay THEN d ELSE maxBackoffDelay

calculateBackoffDelay(retryCount, retryAfter) ==
  IF retryAfter # Undefined
    THEN retryAfter * 1000
    ELSE LET d == baseBackoffDelay * Pow2(retryCount)
         IN IF d < maxBackoffDelay THEN d ELSE maxBackoffDelay

\* (variant: an entry of exactly 5 minutes is already stale)
getInFlightRequest_StaleAtLimit(map, key, t) ==
  IF key \in DOMAIN map
    THEN IF t - map[key].timestamp >= StaleMs
           THEN [promise |-> Null, map |-> [k \in DOMAIN map \ {key} |-> map[k]]]
           ELSE [promise |-> map[key].promise, map |-> map]
    ELSE [promise |-> Null, map |-> map]

\* getInFlightRequest: the promise registered under key, or Null; a stale
\* entry is deleted (the map after the call is .map).
getInFlightRequest(map, key, t) ==
  IF key \in DOMAIN map
    THEN IF t - map[key].timestamp > StaleMs
           THEN [promise |-> Null, map |-> [k \in DOMAIN map \ {key} |-> map[k]]]
           ELSE [promise |-> map[key].promise, map |-> map]
    ELSE [promise |-> Null, map |-> map]

\* (variant: the entry is left in the map)
DeleteInFlight_Keep(map, key) == map

\* inFlightRequests.delete(queuedRequest.dedupeKey), guarded by `if (dedupeKey)`
DeleteInFlight(map, key) ==
  IF key # NoKey THEN [k \in DOMAIN map \ {key} |-> map[k]] ELSE map

\* error instanceof Error && (message.includes('429') || message.includes('Rate limit'))
isRateLimitError(error) == error.isError /\ error.marker

\* (variant: one retry too many)
shouldRetry_Inclusive(error, retryCount) ==
  isRateLimitError(error) /\ retryCount <= maxRetries

\* (variant: every failure is retried)
shouldRetry_AnyFailure(error, retryCount) == retryCount < maxRetries

\* line 120: isRateLimitError && queuedRequest.retryCount < maxRetries
shouldRetry(error, retryCount) == isRateLimitError(error) /\ retryCount < maxRetries

\* errorWithRetryAfter.retryAfter || queuedRequest.retryAfter
\* (`||` takes the right operand when the left is undefined, 0 or NaN)
OrRetryAfter(a, b) == IF a # Undefined /\ a # 0 /\ a # NaN THEN a ELSE b

\* error instanceof Error ? error : new Error(String(error))
ToError(error) ==
  IF error.isError THEN error
  ELSE [error EXCEPT !.isError = TRUE, !.wrapped = TRUE]

\* (variant: every queued request with that key gets the hint)
setRetryAfter_Every(qs, api, dedupeKey, retryAfter) ==
  [qs EXCEPT ![api] =
     [i \in 1..Len(qs[api]) |->
        IF qs[api][i].dedupeKey = dedupeKey
          THEN [qs[api][i] EXCEPT !.retryAfter = retryAfter]
          ELSE qs[api][i]]]

\* setRetryAfter(api, dedupeKey, retryAfter), lines 227-233: the first
\* request with that key still in the queue of api gets the hint
setRetryAfter(qs, api, dedupeKey, retryAfter) ==
  LET queue == qs[api]
      hits == {i \in 1..Len(queue) : queue[i].dedupeKey = dedupeKey}
  IN IF hits = {} THEN qs
     ELSE [qs EXCEPT ![api][Min(hits)].retryAfter = retryAfter]

\* The synchronous state a handler threads through its calls.
State ==
  [limiters |-> limiters, queues |-> queues, timers |-> timers,
   running |-> running, invocations |-> invocations]

Timer(kind, delay, api, batch, from, cause) ==
  [kind |-> kind, deadline |-> now + delay, delay |-> delay, api |-> api,
   batch |-> batch, from |-> from, cause |-> cause]

\* (variant: the operation is called without recording the call)
RecordAndInvoke_NoRecord(st, api, batch) ==
  [st EXCEPT
     !.running = st.running \cup {[api |-> api, batch |-> batch]},
     !.invocations = Append(st.invocations,
        [id |-> batch[1].id, api |-> api, at |-> now,
         retryCount |-> batch[1].retryCount])]

\* lines 105-107: recordRequest, then call requestFn and suspend on its promise
RecordAndInvoke(st, api, batch) ==
  [st EXCEPT
     !.limiters = recordRequest(st.limiters, api, now),
     !.running = st.running \cup {[api |-> api, batch |-> batch]},
     !.invocations = Append(st.invocations,
        [id |-> batch[1].id, api |-> api, at |-> now,
         retryCount |-> batch[1].retryCount])]

\* lines 155-163: after the loop
EndOfCycle(st, api) ==
  IF Len(st.queues[api]) > 0
    THEN [st EXCEPT !.timers = st.timers \cup
            {Timer("batch", InterBatchDelay, api, <<>>, NoRequest, NoOutcome)}]
    ELSE st

\* (variant: a request that finds the window full is not rescheduled)
RunLoop_DropWaiting(st, api, batch) ==
  IF batch = <<>>
    THEN EndOfCycle(st, api)
    ELSE LET r == canMakeRequest(st.limiters, api, now)
             st1 == [st EXCEPT !.limiters = r.limiters]
         IN IF ~r.allowed /\ r.waitMs # Undefined
              THEN st1
              ELSE RecordAndInvoke(st1, api, batch)

\* lines 94-107: the loop from the request at the head of `batch` up to its
\* next yield point
RunLoop(st, api, batch) ==
  IF batch = <<>>
    THEN EndOfCycle(st, api)
    ELSE LET r == canMakeRequest(st.limiters, api, now)
             st1 == [st EXCEPT !.limiters = r.limiters]
         IN IF ~r.allowed /\ r.waitMs # Undefined
              THEN [st1 EXCEPT !.timers = st1.timers \cup
                      {Timer("wait", r.waitMs, api, batch, NoRequest, NoOutcome)}]
              ELSE RecordAndInvoke(st1, api, batch)

\* (variant: the batch is taken only when no drain cycle of the resource is
\* under way)
processBatch_WhenIdle(st, api) ==
  LET queue == st.queues[api]
      busy == \/ \E c \in st.running : c.api = api
              \/ \E t \in st.timers : t.kind = "wait" /\ t.api = api
  IN IF Len(queue) = 0 \/ busy
       THEN st
       ELSE LET n == IF Len(queue) < batchSize THEN Len(queue) ELSE batchSize
                batch == SubSeq(queue, 1, n)
                rest == SubSeq(queue, n + 1, Len(queue))
            IN RunLoop([st EXCEPT !.queues[api] = rest], api, batch)

\* lines 83-107: processBatch up to its first yield point
processBatch(st, api) ==
  LET queue == st.queues[api]
  IN IF Len(queue) = 0
       THEN st
       ELSE LET n == IF Len(queue) < batchSize THEN Len(queue) ELSE batchSize
                batch == SubSeq(queue, 1, n)
                rest == SubSeq(queue, n + 1, Len(queue))
            IN RunLoop([st EXCEPT !.queues[api] = rest], api, batch)

\* (variant: the shared promise is not settled, only the first caller is)
Settle_OwnerOnly(cs, q, outcome) ==
  [c \in DOMAIN cs |->
     IF cs[c].status = "pending" /\ c = q.id
       THEN [cs[c] EXCEPT !.status = IF outcome.ok THEN "resolved" ELSE "rejected",
                          !.outcome = outcome]
       ELSE cs[c]]

\* (variant: a settlement reaches every pending caller)
Settle_Everyone(cs, q, outcome) ==
  [c \in DOMAIN cs |->
     IF cs[c].status = "pending"
       THEN [cs[c] EXCEPT !.status = IF outcome.ok THEN "resolved" ELSE "rejected",
                          !.outcome = outcome]
       ELSE cs[c]]

\* queuedRequest.resolve / queuedRequest.reject: settles the caller of the
\* request and, through the shared promise of lines 193-202, every caller
\* that attached to it with existing.then(resolve).catch(reject)
Settle(cs, q, outcome) ==
  [c \in DOMAIN cs |->
     IF cs[c].status = "pending"
        /\ (c = q.id \/ (q.dedupeKey # NoKey /\ cs[c].attached = q.id))
       THEN [cs[c] EXCEPT !.status = IF outcome.ok THEN "resolved" ELSE "rejected",
                          !.outcome = outcome]
       ELSE cs[c]]

NoteAttempt(cs, q, outcome) ==
  [cs EXCEPT ![q.id].attempts = Append(cs[q.id].attempts, outcome)]

----------------------------------------------------------------------------
(* apiClient.ts *)

\* the arguments of a fetchWithRateLimit call; method and body "" when the
\* option is absent, dedupeKey NoKey when the argument is absent
Request(url, method, body, dedupeKey) ==
  [url |-> url, method |-> method, body |-> body, dedupeKey |-> dedupeKey]

\* generateDedupeKey(url, options), lines 146-150
generateDedupeKey(url, method, body) ==
  (IF method # "" THEN method ELSE "GET") \o ":" \o url \o ":" \o body

WhiteSpace == {9, 10, 11, 12, 13, 32}

RECURSIVE TrimStart(_)
TrimStart(text) ==
  IF text # <<>> /\ text[1] \in WhiteSpace THEN TrimStart(Tail(text)) ELSE text

\* the longest prefix of decimal digits
RECURSIVE LeadingDigits(_)
LeadingDigits(text) ==
  IF text # <<>> /\ text[1] \in 48..57
    THEN <<text[1]>> \o LeadingDigits(Tail(text))
    ELSE <<>>

RECURSIVE DecimalValue(_)
DecimalValue(digits) ==
  IF digits = <<>> THEN 0
  ELSE 10 * DecimalValue(SubSeq(digits, 1, Len(digits) - 1)) + (digits[Len(digits)] - 48)

\* parseInt(text, 10): leading white space is skipped, then an optional sign
\* and the longest run of digits are read; NaN when there is no digit.
\* (The responses drawn below carry no sign: Retry-After is a number of
\* seconds or a date, and a negative result would need another encoding of
\* undefined.)
parseInt(text) ==
  LET t == TrimStart(text)
      signed == t # <<>> /\ t[1] \in {43, 45}
      digits == LeadingDigits(IF signed THEN Tail(t) ELSE t)
  IN IF digits = <<>> THEN NaN
     ELSE IF signed /\ t[1] = 45 THEN 0 - DecimalValue(digits)
     ELSE DecimalValue(digits)

\* (variant: a server error is raised like a 429)
requestFn_ServerErrors(response, n) ==
  IF response.status = 429 \/ response.status >= 500
    THEN LET retryAfterHeader == response.retryAfter
             retryAfter == IF retryAfterHeader.present /\ retryAfterHeader.text # <<>>
                             THEN parseInt(retryAfterHeader.text)
                             ELSE Undefined
         IN [RateLimitFailure(retryAfter, n) EXCEPT !.response = response]
    ELSE [Success("v", n) EXCEPT !.response = response]

\* the operation fetchWithRateLimit hands to enqueueRequest, lines 164-186,
\* from the response of fetch on: a 429 becomes the Error
\* `Rate limit exceeded (429). Retry-After: ...` with its retryAfter
\* property (`retryAfterHeader ? parseInt(retryAfterHeader, 10) : undefined`,
\* an empty header being falsy), any other response is returned.
requestFn(response, n) ==
  IF response.status = 429
    THEN LET retryAfterHeader == response.retryAfter
             retryAfter == IF retryAfterHeader.present /\ retryAfterHeader.text # <<>>
                             THEN parseInt(retryAfterHeader.text)
                             ELSE Undefined
         IN [RateLimitFailure(retryAfter, n) EXCEPT !.response = response]
    ELSE [Success("v", n) EXCEPT !.response = response]

----------------------------------------------------------------------------
(* redis.ts.  Strings the cache handles are sequences of UTF-16 code units. *)

Colon == 58
Quote == 34
Backslash == 92
NullText == <<110, 117, 108, 108>>

(* JavaScript values that reach the cache *)
JsNull == [t |-> "null", n |-> 0, s |-> <<>>]

Num(n) == [t |-> "number", n |-> n, s |-> <<>>]

Str(s) == [t |-> "string", n |-> 0, s |-> s]

\* an object graph with a cycle: JSON.stringify throws a TypeError on it
Circular == [t |-> "circular", n |-> 0, s |-> <<>>]

RECURSIVE Digits(_)
Digits(n) == IF n < 10 THEN <<48 + n>> ELSE Digits(n \div 10) \o <<48 + (n % 10)>>

RECURSIVE Escape(_)
Escape(s) ==
  IF s = <<>> THEN <<>>
  ELSE (IF s[1] \in {Quote, Backslash} THEN <<Backslash, s[1]>> ELSE <<s[1]>>)
         \o Escape(Tail(s))

RECURSIVE Unescape(_)
Unescape(s) ==
  IF s = <<>> THEN <<>>
  ELSE IF s[1] = Backslash
    THEN <<s[2]>> \o Unescape(SubSeq(s, 3, Len(s)))
    ELSE <<s[1]>> \o Unescape(Tail(s))

RECURSIVE WellEscaped(_)
WellEscaped(s) ==
  IF s = <<>> THEN TRUE
  ELSE IF s[1] = Quote THEN FALSE
  ELSE IF s[1] = Backslash
    THEN /\ Len(s) >= 2
         /\ s[2] \in {Quote, Backslash}
         /\ WellEscaped(SubSeq(s, 3, Len(s)))
    ELSE WellEscaped(Tail(s))

RECURSIVE NumberOf(_)
NumberOf(text) ==
  IF text = <<>> THEN 0
  ELSE 10 * NumberOf(SubSeq(text, 1, Len(text) - 1)) + (text[Len(text)] - 48)

IsNumberText(text) ==
  /\ text # <<>>
  /\ \A i \in 1..Len(text) : text[i] \in 48..57
  /\ Len(text) = 1 \/ text[1] # 48

\* JSON.stringify(value): the text, or a throw
JSONstringify(v) ==
  CASE v.t = "null" -> [threw |-> FALSE, text |-> NullText]
    [] v.t = "number" -> [threw |-> FALSE, text |-> Digits(v.n)]
    [] v.t = "string" -> [threw |-> FALSE, text |-> <<Quote>> \o Escape(v.s) \o <<Quote>>]
    [] OTHER -> [threw |-> TRUE, text |-> <<>>]

\* JSON.parse(text): the value, or a throw (SyntaxError)
JSONparse(text) ==
  IF text = NullText THEN [threw |-> FALSE, value |-> JsNull]
  ELSE IF IsNumberText(text) THEN [threw |-> FALSE, value |-> Num(NumberOf(text))]
  ELSE IF /\ Len(text) >= 2
          /\ text[1] = Quote
          /\ text[Len(text)] = Quote
          /\ WellEscaped(SubSeq(text, 2, Len(text) - 1))
    THEN [threw |-> FALSE, value |-> Str(Unescape(SubSeq(text, 2, Len(text) - 1)))]
  ELSE [threw |-> TRUE, value |-> JsNull]

NoExpiry == -1

\* redis.get(key): the stored text, nil when the key is absent or its expiry
\* time has passed; the promise rejects when the connection is down or the
\* command fails
redisGet(client, st, key, t, fails) ==
  IF client # "ready" \/ fails
    THEN [threw |-> TRUE, nil |-> TRUE, text |-> <<>>]
  ELSE IF key \in DOMAIN st /\ (st[key].expiresAt = NoExpiry \/ t <= st[key].expiresAt)
    THEN [threw |-> FALSE, nil |-> FALSE, text |-> st[key].text]
  ELSE [threw |-> FALSE, nil |-> TRUE, text |-> <<>>]

\* redis.setex(key, ttl, text): SETEX wants a positive expire time
redisSetex(client, st, key, ttl, text, t, fails) ==
  IF client # "ready" \/ fails \/ ttl <= 0
    THEN [threw |-> TRUE, store |-> st]
    ELSE [threw |-> FALSE,
          store |-> [k \in DOMAIN st \cup {key} |->
                       IF k = key THEN [text |-> text, expiresAt |-> t + ttl * 1000]
                       ELSE st[k]]]

Return(v) == [raised |-> FALSE, value |-> v]

Raise == [raised |-> TRUE, value |-> JsNull]

\* (variant: a rejected redis.get is not caught)
getCache_NoCatch(client, st, key, t, fails) ==
  IF client = "null" THEN Return(JsNull)
  ELSE LET cached == redisGet(client, st, key, t, fails)
       IN IF cached.threw THEN Raise
          ELSE IF ~cached.nil /\ cached.text # <<>>
            THEN LET parsed == JSONparse(cached.text)
                 IN IF parsed.threw THEN Return(JsNull) ELSE Return(parsed.value)
            ELSE Return(JsNull)

\* (variant: the stored text is returned as it is)
getCache_RawText(client, st, key, t, fails) ==
  IF client = "null" THEN Return(JsNull)
  ELSE LET cached == redisGet(client, st, key, t, fails)
       IN IF cached.threw THEN Return(JsNull)
          ELSE IF ~cached.nil /\ cached.text # <<>>
            THEN Return(Str(cached.text))
            ELSE Return(JsNull)

\* getCache(key), lines 91-120
getCache(client, st, key, t, fails) ==
  IF client = "null" THEN Return(JsNull)
  ELSE LET cached == redisGet(client, st, key, t, fails)
       IN IF cached.threw THEN Return(JsNull)
          ELSE IF ~cached.nil /\ cached.text # <<>>
            THEN LET parsed == JSONparse(cached.text)
                 IN IF parsed.threw THEN Return(JsNull) ELSE Return(parsed.value)
            ELSE Return(JsNull)

\* setCache(key, value, ttl), lines 126-152: whether it raised, and the store
\* after the call
setCache(client, st, key, value, ttl, t, fails) ==
  IF client = "null" THEN [raised |-> FALSE, store |-> st]
  ELSE LET serialized == JSONstringify(value)
       IN IF serialized.threw THEN [raised |-> FALSE, store |-> st]
          ELSE [raised |-> FALSE,
                store |-> redisSetex(client, st, key, ttl, serialized.text, t, fails).store]

\* Object.keys(params): the names in insertion order
ObjectKeys(params) == [i \in 1..Len(params) |-> params[i].name]

\* comparison of strings by code units, as Array.prototype.sort does by default
RECURSIVE LexLess(_, _)
LexLess(x, y) ==
  IF y = <<>> THEN FALSE
  ELSE IF x = <<>> THEN TRUE
  ELSE IF x[1] # y[1] THEN x[1] < y[1]
  ELSE LexLess(Tail(x), Tail(y))

RECURSIVE InsertSorted(_, _)
InsertSorted(x, sorted) ==
  IF sorted = <<>> THEN <<x>>
  ELSE IF LexLess(x, sorted[1]) THEN <<x>> \o sorted
  ELSE <<sorted[1]>> \o InsertSorted(x, Tail(sorted))

RECURSIVE Sort(_)
Sort(names) == IF names = <<>> THEN <<>> ELSE InsertSorted(names[1], Sort(Tail(names)))

\* params[key]
Lookup(params, name) == params[CHOOSE i \in 1..Len(params) : params[i].name = name].value

\* `${value}` in a template literal
ToStringJS(v) ==
  CASE v.t = "null" -> NullText
    [] v.t = "number" -> Digits(v.n)
    [] OTHER -> v.s

RECURSIVE Join(_, _)
Join(parts, sep) ==
  IF parts = <<>> THEN <<>>
  ELSE IF Len(parts) = 1 THEN parts[1]
  ELSE parts[1] \o sep \o Join(Tail(parts), sep)

\* (variant: the names are not sorted)
generateCacheKey_Unsorted(endpoint, params) ==
  LET names == ObjectKeys(params)
      parts == [i \in 1..Len(names) |->
                  names[i] \o <<Colon>> \o ToStringJS(Lookup(params, names[i]))]
  IN endpoint \o <<Colon>> \o Join(parts, <<Colon>>)

\* generateCacheKey(endpoint, params), lines 79-85
generateCacheKey(endpoint, params) ==
  LET names == Sort(ObjectKeys(params))
      parts == [i \in 1..Len(names) |->
                  names[i] \o <<Colon>> \o ToStringJS(Lookup(params, names[i]))]
  IN endpoint \o <<Colon>> \o Join(parts, <<Colon>>)

----------------------------------------------------------------------------
(* Initial state: module load.  initializeRateLimiters registers both      *)
(* resources; the limits are drawn from small values so that a window      *)
(* fills within the bounds.                                                *)

\* Retry-After values: "0", "1", "2x", a date ("W..."), and the empty string
RetryAfterTexts == {<<48>>, <<49>>, <<50, 120>>, <<87>>, <<>>}

\* the responses fetch may deliver
Responses ==
  {Response(s, Absent) : s \in {200, 404, 429, 500}}
    \cup {Response(429, Header(t)) : t \in RetryAfterTexts}
    \cup {Response(503, Header(<<49>>))}

FairProfiles ==
  { [enq |-> MaxEnqueues, fail |-> 0, ticks |-> MaxTicks,
     apis |-> {"discogs"}, keys |-> {NoKey}, hints |-> {Undefined},
     maxRequests |-> 2, windowMs |-> 1000, requests |-> {}, responses |-> {}],
    [enq |-> MaxEnqueues - 1, fail |-> 0, ticks |-> MaxTicks,
     apis |-> {"discogs"}, keys |-> {NoKey}, hints |-> {Undefined},
     maxRequests |-> 1, windowMs |-> 1000, requests |-> {}, responses |-> {}],
    [enq |-> MaxEnqueues - 1, fail |-> 2, ticks |-> 0,
     apis |-> {"discogs"}, keys |-> {"k"}, hints |-> {Undefined, 400},
     maxRequests |-> 2, windowMs |-> 1000, requests |-> {}, responses |-> {}],
    [enq |-> MaxEnqueues - 2, fail |-> 0, ticks |-> 0,
     apis |-> {"discogs"}, keys |-> {}, hints |-> {Undefined},
     maxRequests |-> 2, windowMs |-> 1000,
     requests |-> {Request("/r", "", "", NoKey), Request("/r", "GET", "", NoKey)},
     responses |-> {Response(200, Absent)}] }

Profiles ==
  FairProfiles \cup
  { [enq |-> 1, fail |-> MaxFailures, ticks |-> 0,
     apis |-> {"discogs"}, keys |-> {NoKey}, hints |-> {Undefined, 0, 10, 400},
     maxRequests |-> 1, windowMs |-> 1000, requests |-> {}, responses |-> {}],
    [enq |-> MaxEnqueues - 1, fail |-> 1, ticks |-> 0,
     apis |-> APIs, keys |-> {NoKey}, hints |-> {Undefined},
     maxRequests |-> 1, windowMs |-> 1000, requests |-> {}, responses |-> {}],
    [enq |-> MaxEnqueues, fail |-> 1, ticks |-> 0,
     apis |-> {"discogs"}, keys |-> {"k"}, hints |-> {300, 400},
     maxRequests |-> 2, windowMs |-> 1000, requests |-> {}, responses |-> {}],
    [enq |-> MaxEnqueues - 2, fail |-> 1, ticks |-> 0,
     apis |-> APIs, keys |-> {"k"}, hints |-> {Undefined},
     maxRequests |-> 1, windowMs |-> 1000, requests |-> {}, responses |-> {}],
    [enq |-> MaxEnqueues, fail |-> 1, ticks |-> 0,
     apis |-> {Unregistered}, keys |-> {NoKey}, hints |-> {Undefined},
     maxRequests |-> 1, windowMs |-> 1000, requests |-> {}, responses |-> {}],
    [enq |-> MaxEnqueues - 1, fail |-> 1, ticks |-> 0,
     apis |-> {"discogs"}, keys |-> {}, hints |-> {400},
     maxRequests |-> 2, windowMs |-> 1000,
     requests |-> {Request("/r", "", "", NoKey), Request("/r", "GET", "", NoKey),
                   Request("/r", "GET", "", "k")},
     responses |-> {Response(200, Absent), Response(429, Header(Digits(400)))}],
    [enq |-> 1, fail |-> 2, ticks |-> 0,
     apis |-> {"discogs"}, keys |-> {}, hints |-> {Undefined},
     maxRequests |-> 2, windowMs |-> 1000,
     requests |-> {Request("/r", "GET", "", NoKey)},
     responses |-> Responses] }

\* no call yet
NoGet ==
  [endpoint |-> <<>>, params |-> <<>>, key |-> <<>>, available |-> FALSE,
   raised |-> FALSE, value |-> JsNull]

NoSet ==
  [endpoint |-> <<>>, params |-> <<>>, key |-> <<>>, value |-> JsNull, ttl |-> 0,
   at |-> 0, available |-> FALSE, raised |-> FALSE]

\* The cache at module load: the client handle (null when the constructor
\* threw, else not yet connected) and what the backend holds.
CacheStart(handles, stores) ==
  /\ redis \in handles
  /\ store \in stores
  /\ lastGet = NoGet
  /\ lastSet = NoSet
  /\ cacheOps = 0

\* the browser module at load: `new Map()`, line 4 of api.ts
ClientStart ==
  /\ clientInFlight = <<>>
  /\ clientPromises = <<>>
  /\ clientCalls = <<>>

QueueStart ==
  /\ limiters = [a \in APIs |->
       [maxRequests |-> budget.maxRequests, windowMs |-> budget.windowMs,
        timestamps |-> <<>>]]
  /\ queues = [a \in Resources |-> <<>>]
  /\ inFlightRequests = <<>>
  /\ timers = {}
  /\ running = {}
  /\ callers = <<>>
  /\ invocations = <<>>
  /\ fetches = {}

InitWith(profiles) ==
  /\ now = 0
  /\ budget \in profiles
  /\ QueueStart
  /\ CacheStart({"down"}, {<<>>})
  /\ ClientStart

Init == InitWith(Profiles)

FairInit == InitWith(FairProfiles)

----------------------------------------------------------------------------
(* Actions *)

Commit(st) ==
  /\ limiters' = st.limiters
  /\ queues' = st.queues
  /\ timers' = st.timers
  /\ running' = st.running
  /\ invocations' = st.invocations

\* (variant: a caller is attached only to a request of its own resource)
EnqueueRequest_PerResource(api, key) ==
  /\ budget.enq > 0
  /\ budget' = [budget EXCEPT !.enq = @ - 1]
  /\ UNCHANGED <<now, cacheVars, clientVars>>
  /\ LET id == Len(callers) + 1
         g == getInFlightRequest(inFlightRequests, key, now)
         caller == [api |-> api, key |-> key, enqueuedAt |-> now,
                    attached |-> Null, status |-> "pending",
                    outcome |-> NoOutcome, attempts |-> <<>>,
                    \* what the lookup of line 175 met
                    found |-> IF key = NoKey \/ key \notin DOMAIN inFlightRequests
                                THEN "none"
                              ELSE IF g.promise = Null THEN "stale" ELSE "fresh"]
     IN IF key # NoKey /\ g.promise # Null /\ callers[g.promise].api = api
          THEN \* attach to the in-flight promise
               /\ callers' = Append(callers,
                    [caller EXCEPT !.attached = g.promise,
                                   !.status = callers[g.promise].status,
                                   !.outcome = callers[g.promise].outcome])
               /\ inFlightRequests' = g.map
               /\ Commit(State)
          ELSE LET q == [id |-> id, dedupeKey |-> key, retryCount |-> 0,
                         retryAfter |-> Undefined]
                   map1 == IF key # NoKey
                             THEN [k \in DOMAIN g.map \cup {key} |->
                                     IF k = key
                                       THEN [promise |-> id, timestamp |-> now]
                                       ELSE g.map[k]]
                             ELSE inFlightRequests
                   queue == Append(queues[api], q)
                   st1 == [State EXCEPT !.queues[api] = queue]
               IN /\ callers' = Append(callers, caller)
                  /\ inFlightRequests' = map1
                  /\ Commit(IF Len(queue) = 1 THEN processBatch(st1, api) ELSE st1)

\* enqueueRequest(api, requestFn, dedupeKey), lines 169-222, with the
\* processBatch call it makes
EnqueueRequest(api, key) ==
  /\ budget.enq > 0
  /\ budget' = [budget EXCEPT !.enq = @ - 1]
  /\ UNCHANGED <<now, cacheVars, clientVars>>
  /\ LET id == Len(callers) + 1
         g == getInFlightRequest(inFlightRequests, key, now)
         caller == [api |-> api, key |-> key, enqueuedAt |-> now,
                    attached |-> Null, status |-> "pending",
                    outcome |-> NoOutcome, attempts |-> <<>>,
                    \* what the lookup of line 175 met
                    found |-> IF key = NoKey \/ key \notin DOMAIN inFlightRequests
                                THEN "none"
                              ELSE IF g.promise = Null THEN "stale" ELSE "fresh"]
     IN IF key # NoKey /\ g.promise # Null
          THEN \* attach to the in-flight promise
               /\ callers' = Append(callers,
                    [caller EXCEPT !.attached = g.promise,
                                   !.status = callers[g.promise].status,
                                   !.outcome = callers[g.promise].outcome])
               /\ inFlightRequests' = g.map
               /\ Commit(State)
          ELSE LET q == [id |-> id, dedupeKey |-> key, retryCount |-> 0,
                         retryAfter |-> Undefined]
                   map1 == IF key # NoKey
                             THEN [k \in DOMAIN g.map \cup {key} |->
                                     IF k = key
                                       THEN [promise |-> id, timestamp |-> now]
                                       ELSE g.map[k]]
                             ELSE inFlightRequests
                   queue == Append(queues[api], q)
                   st1 == [State EXCEPT !.queues[api] = queue]
               IN /\ callers' = Append(callers, caller)
                  /\ inFlightRequests' = map1
                  /\ Commit(IF Len(queue) = 1 THEN processBatch(st1, api) ELSE st1)

\* (variant: a failure that is retried is also passed to the caller)
OpComplete_RetryAndReject(c, outcome) ==
  /\ c \in running
  /\ outcome.ok \/ budget.fail > 0
  /\ budget' = IF outcome.ok THEN budget ELSE [budget EXCEPT !.fail = @ - 1]
  /\ UNCHANGED <<now, fetches, cacheVars, clientVars>>
  /\ LET q == c.batch[1]
         \* apiClient.ts lines 176-178, run by the operation before it throws
         qs0 == IF outcome.response.status = 429 /\ outcome.retryAfter # Undefined
                   /\ q.dedupeKey # NoKey
                  THEN setRetryAfter(queues, c.api, q.dedupeKey, outcome.retryAfter)
                  ELSE queues
         st0 == [State EXCEPT !.running = running \ {c}, !.queues = qs0]
         cs0 == NoteAttempt(callers, q, outcome)
     IN IF outcome.ok
          THEN /\ inFlightRequests' = DeleteInFlight(inFlightRequests, q.dedupeKey)
               /\ callers' = Settle(cs0, q, outcome)
               /\ Commit(RunLoop(st0, c.api, Tail(c.batch)))
          ELSE IF shouldRetry(outcome, q.retryCount)
            THEN LET retryAfter == OrRetryAfter(outcome.retryAfter, q.retryAfter)
                     delay == calculateBackoffDelay(q.retryCount, retryAfter)
                     retryRequest == [q EXCEPT !.retryCount = q.retryCount + 1,
                                               !.retryAfter = retryAfter]
                     st1 == [st0 EXCEPT !.timers = st0.timers \cup
                               {Timer("retry", delay, c.api, <<retryRequest>>, q, outcome)}]
                 IN /\ inFlightRequests' = inFlightRequests
                    /\ callers' = Settle(cs0, q, ToError(outcome))
                    /\ Commit(RunLoop(st1, c.api, Tail(c.batch)))
            ELSE /\ inFlightRequests' = DeleteInFlight(inFlightRequests, q.dedupeKey)
                 /\ callers' = Settle(cs0, q, ToError(outcome))
                 /\ Commit(RunLoop(st0, c.api, Tail(c.batch)))

\* The promise of requestFn settles: lines 107-152 for the request at the
\* head of the batch, then the loop goes on to the next request.
OpComplete(c, outcome) ==
  /\ c \in running
  /\ outcome.ok \/ budget.fail > 0
  /\ budget' = IF outcome.ok THEN budget ELSE [budget EXCEPT !.fail = @ - 1]
  /\ UNCHANGED <<now, fetches, cacheVars, clientVars>>
  /\ LET q == c.batch[1]
         \* apiClient.ts lines 176-178, run by the operation before it throws
         qs0 == IF outcome.response.status = 429 /\ outcome.retryAfter # Undefined
                   /\ q.dedupeKey # NoKey
                  THEN setRetryAfter(queues, c.api, q.dedupeKey, outcome.retryAfter)
                  ELSE queues
         st0 == [State EXCEPT !.running = running \ {c}, !.queues = qs0]
         cs0 == NoteAttempt(callers, q, outcome)
     IN IF outcome.ok
          THEN /\ inFlightRequests' = DeleteInFlight(inFlightRequests, q.dedupeKey)
               /\ callers' = Settle(cs0, q, outcome)
               /\ Commit(RunLoop(st0, c.api, Tail(c.batch)))
          ELSE IF shouldRetry(outcome, q.retryCount)
            THEN LET retryAfter == OrRetryAfter(outcome.retryAfter, q.retryAfter)
                     delay == calculateBackoffDelay(q.retryCount, retryAfter)
                     retryRequest == [q EXCEPT !.retryCount = q.retryCount + 1,
                                               !.retryAfter = retryAfter]
                     st1 == [st0 EXCEPT !.timers = st0.timers \cup
                               {Timer("retry", delay, c.api, <<retryRequest>>, q, outcome)}]
                 IN /\ inFlightRequests' = inFlightRequests
                    /\ callers' = cs0
                    /\ Commit(RunLoop(st1, c.api, Tail(c.batch)))
            ELSE /\ inFlightRequests' = DeleteInFlight(inFlightRequests, q.dedupeKey)
                 /\ callers' = Settle(cs0, q, ToError(outcome))
                 /\ Commit(RunLoop(st0, c.api, Tail(c.batch)))

\* fetchWithRateLimit(url, options, apiName, dedupeKey), lines 155-187: the
\* key is `dedupeKey || generateDedupeKey(url, options)`
FetchWithRateLimit(r, apiName) ==
  LET key == IF r.dedupeKey # NoKey THEN r.dedupeKey
             ELSE generateDedupeKey(r.url, r.method, r.body)
  IN /\ EnqueueRequest(apiName, key)
     /\ fetches' = fetches \cup {[id |-> Len(callers) + 1, request |-> r]}

\* What the operation at the head of c's batch may produce.  An operation
\* passed to enqueueRequest is arbitrary; the one built by fetchWithRateLimit
\* maps the response of fetch, or fails with the Error fetch rejects with.
Outcomes(c) ==
  LET n == Len(callers[c.batch[1].id].attempts) + 1
  IN IF c.batch[1].id \in {f.id : f \in fetches}
       THEN {requestFn(r, n) : r \in budget.responses}
              \cup {OtherFailure(n), MarkedFailure(n)}
       ELSE {Success("v", n), OtherFailure(n), NonErrorThrow(n), MarkedFailure(n)}
              \cup {RateLimitFailure(h, n) : h \in budget.hints}

\* (variant: the callback runs without waiting for its delay)
TimerFire_Early(t) ==
  /\ t \in timers
  /\ UNCHANGED <<now, inFlightRequests, callers, budget, fetches, cacheVars, clientVars>>
  /\ LET st0 == [State EXCEPT !.timers = timers \ {t}]
     IN CASE t.kind = "wait" ->
               Commit(RecordAndInvoke(st0, t.api, t.batch))
          [] t.kind = "retry" ->
               Commit(processBatch(
                 [st0 EXCEPT !.queues[t.api] = t.batch \o st0.queues[t.api]], t.api))
          [] OTHER ->
               Commit(processBatch(st0, t.api))

\* A setTimeout callback runs, at or after its deadline.
TimerFire(t) ==
  /\ t \in timers
  /\ now >= t.deadline
  /\ UNCHANGED <<now, inFlightRequests, callers, budget, fetches, cacheVars, clientVars>>
  /\ LET st0 == [State EXCEPT !.timers = timers \ {t}]
     IN CASE t.kind = "wait" ->
               \* line 102 resumes: lines 105-107
               Commit(RecordAndInvoke(st0, t.api, t.batch))
          [] t.kind = "retry" ->
               \* lines 136-143: unshift the retry copy, processBatch
               Commit(processBatch(
                 [st0 EXCEPT !.queues[t.api] = t.batch \o st0.queues[t.api]], t.api))
          [] OTHER ->
               \* lines 158-162
               Commit(processBatch(st0, t.api))

\* Time passes: to the next timer deadline, or by a free step.
Tick ==
  /\ UNCHANGED <<queueVars, cacheVars, clientVars>>
  /\ LET later == {t.deadline : t \in {x \in timers : x.deadline > now}}
     IN IF later # {}
          THEN \/ now' = Min(later) /\ UNCHANGED budget
               \/ /\ budget.ticks > 0
                  /\ now' = now + TickStep
                  /\ budget' = [budget EXCEPT !.ticks = @ - 1]
          ELSE /\ budget.ticks > 0
               /\ now' = now + TickStep
               /\ budget' = [budget EXCEPT !.ticks = @ - 1]

Next ==
  \/ \E api \in budget.apis, key \in budget.keys :
        EnqueueRequest(api, key) /\ UNCHANGED fetches
  \/ \E api \in budget.apis, r \in budget.requests : FetchWithRateLimit(r, api)
  \/ \E c \in running : \E o \in Outcomes(c) : OpComplete(c, o)
  \/ \E t \in timers : TimerFire(t)
  \/ Tick

Spec == Init /\ [][Next]_vars

\* Timers that are due run, operations terminate, and the clock moves on.
FairSpec ==
  /\ FairInit /\ [][Next]_vars
  /\ WF_vars(\E t \in timers : TimerFire(t))
  /\ WF_vars(\E c \in running : \E o \in Outcomes(c) : OpComplete(c, o))
  /\ WF_vars(Tick)

----------------------------------------------------------------------------
(* The cache on its own: route handlers build a key with generateCacheKey  *)
(* and call getCache / setCache with it (server/index.ts); the connection  *)
(* to the backend comes and goes.                                          *)

Endpoints == {<<99>>}

ParamA == [name |-> <<97>>, value |-> Num(1)]

ParamAB == [name |-> <<97, 98>>, value |-> Str(<<120>>)]

ParamB == [name |-> <<98>>, value |-> Num(25)]

\* the parameters of the bpm lookup, server/index.ts lines 483-486: the
\* artist (name "a") and the song (name "s") are strings of the HTTP request
SongArtist(artist, song) ==
  <<[name |-> <<115>>, value |-> Str(song)], [name |-> <<97>>, value |-> Str(artist)]>>

\* time to live, in seconds (the handlers pass positive constants)
Ttls == {1, 2}

\* text some other writer left under a key, not JSON
GarbageStore ==
  [k \in {generateCacheKey(<<99>>, <<ParamA, ParamB>>)} |->
     [text |-> <<123>>, expiresAt |-> NoExpiry]]

\* What a run of the cache draws from: parameter objects, values, the
\* client handle at module load and what the backend holds then.
CacheProfiles ==
  { [enq |-> 0, fail |-> 0, ticks |-> MaxCacheTicks,
     apis |-> {}, keys |-> {}, hints |-> {}, maxRequests |-> 1, windowMs |-> 1000,
     requests |-> {},
     params |-> {<<ParamA, ParamB>>, <<ParamB, ParamA>>},
     values |-> {Str(<<97, Quote>>), Circular},
     handles |-> {"null", "down"}, stores |-> {<<>>, GarbageStore}],
    [enq |-> 0, fail |-> 0, ticks |-> MaxCacheTicks,
     apis |-> {}, keys |-> {}, hints |-> {}, maxRequests |-> 1, windowMs |-> 1000,
     requests |-> {},
     params |-> {<<ParamA, ParamB>>, <<ParamB, ParamAB, ParamA>>},
     values |-> {JsNull, Num(10)},
     handles |-> {"down"}, stores |-> {<<>>}],
    [enq |-> 0, fail |-> 0, ticks |-> 0,
     apis |-> {}, keys |-> {}, hints |-> {}, maxRequests |-> 1, windowMs |-> 1000,
     requests |-> {},
     params |-> {SongArtist(<<120>>, <<121, Colon, 115, Colon, 122>>),
                 SongArtist(<<120, Colon, 115, Colon, 121>>, <<122>>)},
     values |-> {Num(10), Num(25)},
     handles |-> {"down"}, stores |-> {<<>>}] }

CacheInit ==
  /\ now = 0
  /\ budget \in CacheProfiles
  /\ QueueStart
  /\ CacheStart(budget.handles, budget.stores)
  /\ ClientStart

Failing == IF redis = "ready" THEN BOOLEAN ELSE {FALSE}

\* a route handler looks a key up; .available: the client is connected and
\* the command does not fail
GetCache(endpoint, params, fails) ==
  /\ cacheOps < MaxCacheOps
  /\ cacheOps' = cacheOps + 1
  /\ LET key == generateCacheKey(endpoint, params)
         r == getCache(redis, store, key, now, fails)
     IN lastGet' = [endpoint |-> endpoint, params |-> params, key |-> key,
                    available |-> (redis = "ready" /\ ~fails),
                    raised |-> r.raised, value |-> r.value]
  /\ UNCHANGED <<now, queueVars, clientVars, redis, store, lastSet, budget>>

\* a route handler stores what it fetched
SetCache(endpoint, params, value, ttl, fails) ==
  /\ cacheOps < MaxCacheOps
  /\ cacheOps' = cacheOps + 1
  /\ LET key == generateCacheKey(endpoint, params)
         r == setCache(redis, store, key, value, ttl, now, fails)
     IN /\ store' = r.store
        /\ lastSet' = [endpoint |-> endpoint, params |-> params, key |-> key,
                       value |-> value, ttl |-> ttl, at |-> now,
                       available |-> (redis = "ready" /\ ~fails),
                       raised |-> r.raised]
  /\ lastGet' = NoGet
  /\ UNCHANGED <<now, queueVars, clientVars, redis, budget>>

\* the client's 'ready' event
RedisConnect ==
  /\ redis = "down"
  /\ redis' = "ready"
  /\ UNCHANGED <<now, queueVars, clientVars, store, lastGet, lastSet, cacheOps, budget>>

\* the connection is lost
RedisDisconnect ==
  /\ redis = "ready"
  /\ redis' = "down"
  /\ UNCHANGED <<now, queueVars, clientVars, store, lastGet, lastSet, cacheOps, budget>>

CacheNext ==
  \/ \E e \in Endpoints, p \in budget.params, f \in Failing : GetCache(e, p, f)
  \/ \E e \in Endpoints, p \in budget.params, v \in budget.values, ttl \in Ttls,
        f \in Failing : SetCache(e, p, v, ttl, f)
  \/ RedisConnect
  \/ RedisDisconnect
  \/ Tick

CacheSpec == CacheInit /\ [][CacheNext]_vars

----------------------------------------------------------------------------
(* The browser API module (api.ts): getOrCreateRequest and the reactions   *)
(* it attaches to the promise of requestFn.  A promise entry holds the     *)
(* state of requestFn's promise (.request), how many of the two attached   *)
(* reactions have run, and the state of the promise that was stored and    *)
(* returned (.status).                                                     *)

\* `release:${releaseId}` and `bpm:${song}:${artist}`, lines 138 and 174
ClientKeys == {"release:1", "bpm:s:a"}

ClientProfile ==
  [enq |-> 0, fail |-> 0, ticks |-> 0,
   apis |-> {}, keys |-> {}, hints |-> {}, maxRequests |-> 1, windowMs |-> 1000,
   requests |-> {}, responses |-> {}]

ClientInit ==
  /\ now = 0
  /\ budget = ClientProfile
  /\ QueueStart
  /\ CacheStart({"down"}, {<<>>})
  /\ ClientStart

\* inFlightRequests.delete(key)
ClientDelete(map, key) == [k \in DOMAIN map \ {key} |-> map[k]]

\* (variant: the key is removed on success only)
Reaction_SuccessOnly(map, promise) ==
  IF promise.reactions = 0
    THEN [map |-> IF promise.request = "fulfilled"
                    THEN ClientDelete(map, promise.key) ELSE map,
          promise |-> [promise EXCEPT !.reactions = 1]]
    ELSE [map |-> map,
          promise |-> [promise EXCEPT !.reactions = 2, !.status = promise.request]]

\* lines 39-46, the next reaction to run on a settled request: first the
\* .then callback (delete and pass the result on; skipped on a failure),
\* then the .catch callback (delete and rethrow; skipped on a success), after
\* which the stored promise settles
Reaction(map, promise) ==
  IF promise.reactions = 0
    THEN [map |-> IF promise.request = "fulfilled"
                    THEN ClientDelete(map, promise.key) ELSE map,
          promise |-> [promise EXCEPT !.reactions = 1]]
    ELSE [map |-> IF promise.request = "rejected"
                    THEN ClientDelete(map, promise.key) ELSE map,
          promise |-> [promise EXCEPT !.reactions = 2, !.status = promise.request]]

\* getOrCreateRequest(key, requestFn), lines 30-50
GetOrCreateRequest(key) ==
  /\ Len(clientCalls) < MaxClientCalls
  /\ UNCHANGED <<now, queueVars, cacheVars, budget>>
  /\ IF key \in DOMAIN clientInFlight
       THEN /\ clientCalls' = Append(clientCalls,
                 [key |-> key, returned |-> clientInFlight[key], invoked |-> FALSE])
            /\ UNCHANGED <<clientInFlight, clientPromises>>
       ELSE LET id == Len(clientPromises) + 1
            IN /\ clientPromises' = Append(clientPromises,
                    [key |-> key, request |-> "pending", reactions |-> 0,
                     status |-> "pending"])
               /\ clientInFlight' = [k \in DOMAIN clientInFlight \cup {key} |->
                                       IF k = key THEN id ELSE clientInFlight[k]]
               /\ clientCalls' = Append(clientCalls,
                    [key |-> key, returned |-> id, invoked |-> TRUE])

\* the promise of requestFn settles
ClientRequestSettles(p, ok) ==
  /\ p \in 1..Len(clientPromises)
  /\ clientPromises[p].request = "pending"
  /\ clientPromises' = [clientPromises EXCEPT
                          ![p].request = IF ok THEN "fulfilled" ELSE "rejected"]
  /\ UNCHANGED <<now, queueVars, cacheVars, budget, clientInFlight, clientCalls>>

\* a reaction job of promise p runs
ClientReaction(p) ==
  /\ p \in 1..Len(clientPromises)
  /\ clientPromises[p].request # "pending"
  /\ clientPromises[p].reactions < 2
  /\ LET r == Reaction(clientInFlight, clientPromises[p])
     IN /\ clientInFlight' = r.map
        /\ clientPromises' = [clientPromises EXCEPT ![p] = r.promise]
  /\ UNCHANGED <<now, queueVars, cacheVars, budget, clientCalls>>

ClientNext ==
  \/ \E key \in ClientKeys : GetOrCreateRequest(key)
  \/ \E p \in 1..Len(clientPromises) : \E ok \in BOOLEAN : ClientRequestSettles(p, ok)
  \/ \E p \in 1..Len(clientPromises) : ClientReaction(p)

ClientSpec == ClientInit /\ [][ClientNext]_vars

----------------------------------------------------------------------------
(* The rate limiter on its own: the module registers its two limiters at   *)
(* load with the limits of the source, and its exported functions are      *)
(* called again.                                                           *)

NoCreate == [name |-> "", maxRequests |-> 0, windowMs |-> 0, at |-> 0]

LimiterProfile ==
  [enq |-> 0, fail |-> 0, ticks |-> 2,
   apis |-> {}, keys |-> {}, hints |-> {}, maxRequests |-> 25, windowMs |-> 60000,
   requests |-> {}, responses |-> {},
   creates |-> MaxCreates, records |-> MaxRecords,
   \* history: the createRateLimiter call made last
   lastCreate |-> NoCreate]

\* limits a caller may pass
Limits == {[maxRequests |-> 1, windowMs |-> 1000], [maxRequests |-> 25, windowMs |-> 60000]}

LimiterInit ==
  /\ now = 0
  /\ budget = LimiterProfile
  /\ limiters = initializeRateLimiters(<<>>)
  /\ queues = [a \in Resources |-> <<>>]
  /\ inFlightRequests = <<>>
  /\ timers = {}
  /\ running = {}
  /\ callers = <<>>
  /\ invocations = <<>>
  /\ fetches = {}
  /\ CacheStart({"down"}, {<<>>})
  /\ ClientStart

LimiterFrame ==
  UNCHANGED <<now, queues, inFlightRequests, timers, running, callers, invocations,
              fetches, cacheVars, clientVars>>

CreateRateLimiter(name, l) ==
  /\ budget.creates > 0
  /\ limiters' = createRateLimiter(limiters, name, l.maxRequests, l.windowMs).limiters
  /\ budget' = [budget EXCEPT !.creates = @ - 1,
                              !.lastCreate = [name |-> name, maxRequests |-> l.maxRequests,
                                              windowMs |-> l.windowMs, at |-> now]]
  /\ LimiterFrame

InitializeRateLimiters ==
  /\ budget.creates > 0
  /\ limiters' = initializeRateLimiters(limiters)
  /\ budget' = [budget EXCEPT !.creates = @ - 1,
                              !.lastCreate = [name |-> "getsongbpm", maxRequests |-> 50,
                                              windowMs |-> 60000, at |-> now]]
  /\ LimiterFrame

RecordRequest(name) ==
  /\ budget.records > 0
  /\ limiters' = recordRequest(limiters, name, now)
  /\ budget' = [budget EXCEPT !.records = @ - 1]
  /\ LimiterFrame

LimiterNext ==
  \/ \E name \in Resources, l \in Limits : CreateRateLimiter(name, l)
  \/ InitializeRateLimiters
  \/ \E name \in Resources : RecordRequest(name)
  \/ Tick

LimiterSpec == LimiterInit /\ [][LimiterNext]_vars

----------------------------------------------------------------------------
(* Properties *)

Ids == 1..Len(callers)

\* the callers whose enqueueRequest call created a QueuedRequest
Owners == {c \in Ids : callers[c].attached = Null}

InvocationsIn(log, id) == {i \in 1..Len(log) : log[i].id = id}

InvocationsOf(id) == InvocationsIn(invocations, id)

RetryTimers == {t \in timers : t.kind = "retry"}

\* every QueuedRequest that exists: queued, waiting for a slot, executing,
\* or waiting in a backoff delay
LiveRequests ==
  UNION {{queues[a][i] : i \in 1..Len(queues[a])} : a \in Resources}
    \cup UNION {{t.batch[i] : i \in 1..Len(t.batch)} : t \in timers}
    \cup UNION {{c.batch[i] : i \in 1..Len(c.batch)} : c \in running}

\* C1 -- Rate-limit safety: the pruned timestamp list of every resource
\* never holds more than maxRequests entries, i.e. no more than maxRequests
\* calls are recorded inside a trailing windowMs window.
C1_RateLimitSafety ==
  \A a \in DOMAIN limiters :
    Len(limiters[a].timestamps) <= limiters[a].maxRequests

\* C2 -- Dedup sharing (single execution): an enqueueRequest call with a
\* dedupe key k, made while an earlier request registered under k is still
\* unsettled and was registered at most 5 minutes ago, creates no
\* QueuedRequest (the caller is attached); and an attached caller never has
\* an operation invoked on its behalf.
C2_SingleExecution ==
  [][ \A f \in Owners :
        ( /\ Len(callers') = Len(callers) + 1
          /\ callers[f].key # NoKey
          /\ callers'[Len(callers')].key = callers[f].key
          /\ callers[f].status = "pending"
          /\ now - callers[f].enqueuedAt <= StaleMs )
        => /\ callers'[Len(callers')].attached # Null
           /\ InvocationsIn(invocations', Len(callers')) = {}
           /\ limiters' = limiters ]_vars

\* C3 -- Dedup sharing (identical outcome): a caller attached to an
\* in-flight entry is in every state exactly as settled as the caller that
\* registered the entry: pending together, or settled with the same value or
\* the same error.
C3_IdenticalOutcome ==
  \A c \in Ids :
    callers[c].attached # Null =>
      /\ callers[c].status = callers[callers[c].attached].status
      /\ callers[c].outcome = callers[callers[c].attached].outcome

C3_Witness ==
  \E c \in Ids :
    /\ callers[c].attached # Null
    /\ callers[c].status = "rejected"
    /\ \E d \in Ids : d # c /\ callers[d].attached = callers[c].attached
                            /\ callers[d].status = "rejected"

\* C4 -- Eventual settlement: every promise returned by enqueueRequest, for
\* a new request and for an attached caller, eventually resolves or rejects.
AllSettled == \A c \in Ids : callers[c].status # "pending"

C4_EventualSettlement == []<>AllSettled

C4_Witness ==
  \E c \in Owners, d \in Ids :
    /\ callers[d].attached = c
    /\ callers[d].status # "pending"
    /\ Len(callers[c].attempts) >= 2
    /\ \E i \in InvocationsOf(c) : invocations[i].at > callers[c].enqueuedAt

\* C5 -- Retry bound: no operation is invoked more than maxRetries + 1 = 6
\* times, every QueuedRequest has retryCount in 0..5, and a request whose
\* 6th attempt failed with a rate-limited failure is rejected with exactly
\* that failure and has no retry scheduled.
C5_RetryBound ==
  /\ \A c \in Owners : Cardinality(InvocationsOf(c)) <= maxRetries + 1
  /\ \A q \in LiveRequests : q.retryCount \in 0..maxRetries
  /\ \A c \in Owners :
       LET a == callers[c].attempts
       IN (Len(a) = maxRetries + 1 /\ isRateLimitError(a[Len(a)])) =>
            /\ callers[c].status = "rejected"
            /\ callers[c].outcome = a[Len(a)]
            /\ \A q \in LiveRequests : q.id # c

C5_Witness ==
  \E c \in Owners :
    /\ Len(callers[c].attempts) = 6
    /\ \A i \in 1..6 : isRateLimitError(callers[c].attempts[i])
    /\ callers[c].status = "rejected"
    /\ callers[c].outcome.tag = 6

\* C6 -- Backoff sequence: with no server hint (none on the failure, none
\* carried forward) the delay before the k-th retry is 1000, 2000, 4000,
\* 8000, 16000 ms for k = 1..5.
BackoffTable == <<1000, 2000, 4000, 8000, 16000>>

C6_BackoffSequence ==
  \A t \in RetryTimers :
    (t.cause.retryAfter = Undefined /\ t.from.retryAfter = Undefined) =>
      /\ t.batch[1].retryCount \in 1..5
      /\ t.delay = BackoffTable[t.batch[1].retryCount]

C6_Witness ==
  \E t \in RetryTimers :
    /\ t.batch[1].retryCount = 5
    /\ t.delay = 16000
    /\ \A i \in 1..5 : callers[t.batch[1].id].attempts[i].retryAfter = Undefined

\* C7 -- Explicit hint override: a rate-limited failure carrying a hint of
\* h seconds, for every h >= 0, schedules the retry after exactly h * 1000
\* ms; exponential backoff is used only when neither the failure nor the
\* request carries a hint.
C7_HintOverride ==
  \A t \in RetryTimers :
    /\ t.cause.retryAfter # Undefined => t.delay = t.cause.retryAfter * 1000
    /\ (t.cause.retryAfter = Undefined /\ t.from.retryAfter # Undefined)
         => t.delay = t.from.retryAfter * 1000

\* C8 -- Terminal failure: in the step in which an attempt ends with a
\* failure that is not classified as rate-limited, the caller is rejected,
\* no retry timer is scheduled for the request, the in-flight entry of its
\* dedupe key is removed; and a rejected request is never invoked again.
C8_TerminalFailure ==
  [][ \A c \in Owners :
        /\ ( /\ Len(callers'[c].attempts) = Len(callers[c].attempts) + 1
             /\ LET e == callers'[c].attempts[Len(callers'[c].attempts)]
                IN ~e.ok /\ ~isRateLimitError(e) )
           => /\ callers'[c].status = "rejected"
              /\ \A q \in LiveRequests' : q.id # c
              /\ callers[c].key # NoKey =>
                   callers[c].key \notin DOMAIN inFlightRequests'
        /\ callers[c].status = "rejected" =>
             InvocationsIn(invocations', c) = InvocationsOf(c) ]_vars

C8_Witness ==
  \E c \in Owners :
    /\ callers[c].key # NoKey
    /\ callers[c].status = "rejected"
    /\ ~isRateLimitError(callers[c].attempts[Len(callers[c].attempts)])
    /\ Len(callers[c].attempts) >= 2
    /\ callers[c].key \notin DOMAIN inFlightRequests

\* C9 -- Arrival order: of two requests on the same resource that have not
\* been retried, the one enqueued first is invoked first.
C9_ArrivalOrder ==
  \A i, j \in 1..Len(invocations) :
    ( /\ i < j
      /\ invocations[i].api = invocations[j].api
      /\ \A k \in InvocationsOf(invocations[i].id) \cup InvocationsOf(invocations[j].id) :
           invocations[k].retryCount = 0 )
    => invocations[i].id < invocations[j].id

\* C10 -- End-to-end scenario: maxRequests = 2, windowMs = 1000, empty
\* limiter, 4 operations without dedupe key enqueued at the same instant on
\* one resource: the first 2 are invoked at once, the 3rd and 4th not before
\* 1000 ms after the first pair was recorded, and all 4 callers resolve
\* (the operations being successful).
Scenario ==
  /\ Len(callers) >= 4
  /\ \A c \in 1..4 :
       /\ callers[c].api = callers[1].api
       /\ callers[c].key = NoKey
       /\ callers[c].enqueuedAt = callers[1].enqueuedAt
  /\ limiters[callers[1].api].maxRequests = 2
  /\ limiters[callers[1].api].windowMs = 1000

ScenarioSafe ==
  Scenario =>
    /\ \A c \in 1..2 : \E i \in InvocationsOf(c) :
         invocations[i].at = callers[c].enqueuedAt
    /\ \A c \in 3..4 : \A i \in InvocationsOf(c) :
         invocations[i].at >= callers[1].enqueuedAt + 1000

ScenarioDone ==
  /\ Len(callers) >= 4
  /\ \A c \in 1..4 :
       \/ callers[c].status = "resolved"
       \/ \E i \in 1..Len(callers[c].attempts) : ~callers[c].attempts[i].ok

C10_EndToEnd == []ScenarioSafe /\ (Scenario ~> ScenarioDone)

C10_Witness ==
  /\ Scenario
  /\ \A c \in 1..4 : callers[c].status = "resolved"
  /\ \A c \in 3..4 : \E i \in InvocationsOf(c) : invocations[i].at >= 1000

\* C11 -- Sliding-window admission: when the window of a registered
\* resource holds maxRequests recorded calls, canMakeRequest answers not
\* allowed with waitMs = oldest + windowMs - now, 0 < waitMs <= windowMs;
\* with no further call recorded it still refuses 1 ms before waitMs has
\* elapsed and allows once waitMs has elapsed.
InWindow(a) == Prune(limiters[a].timestamps, now - limiters[a].windowMs)

C11_SlidingWindow ==
  \A a \in DOMAIN limiters :
    Len(InWindow(a)) = limiters[a].maxRequests =>
      LET r == canMakeRequest(limiters, a, now)
      IN /\ ~r.allowed
         /\ r.waitMs = InWindow(a)[1] + limiters[a].windowMs - now
         /\ 0 < r.waitMs /\ r.waitMs <= limiters[a].windowMs
         /\ ~canMakeRequest(r.limiters, a, now + r.waitMs - 1).allowed
         /\ \A d \in {0, 1, limiters[a].windowMs} :
              canMakeRequest(r.limiters, a, now + r.waitMs + d).allowed

\* the window holds two calls recorded at different times and a request
\* was refused and waits for the older one to leave
C11_Witness ==
  \E a \in DOMAIN limiters :
    /\ limiters[a].maxRequests = 2
    /\ Len(InWindow(a)) = 2
    /\ InWindow(a)[1] < InWindow(a)[2]
    /\ \E t \in timers : t.kind = "wait" /\ t.api = a
                         /\ t.deadline = InWindow(a)[1] + limiters[a].windowMs

\* a step that is a getCache call, a step that is a setCache call
GetStep == cacheOps' = cacheOps + 1 /\ lastGet' # NoGet

SetStep == cacheOps' = cacheOps + 1 /\ lastGet' = NoGet

\* C12 -- Cache never raises: no getCache or setCache call raises, whatever
\* the backend is doing; when the client handle is null, the connection is
\* down, the command fails or the stored text does not parse, getCache
\* returns null; when the handle is null, the connection is down, the
\* command fails or the value cannot be serialized, setCache leaves the
\* store as it was.
C12_CacheNeverRaises ==
  [][ /\ GetStep =>
           /\ ~lastGet'.raised
           /\ ( \/ redis # "ready"
                \/ ~lastGet'.available
                \/ /\ lastGet'.key \in DOMAIN store
                   /\ JSONparse(store[lastGet'.key].text).threw )
              => lastGet'.value = JsNull
      /\ SetStep =>
           /\ ~lastSet'.raised
           /\ ( \/ redis # "ready"
                \/ ~lastSet'.available
                \/ JSONstringify(lastSet'.value).threw )
              => store' = store ]_vars

\* a setCache of a value with a cycle, then a getCache that found text that
\* is not JSON, both with the backend answering
C12_Witness ==
  /\ lastSet.available /\ lastSet.value = Circular /\ ~lastSet.raised
  /\ lastGet # NoGet /\ lastGet.available /\ ~lastGet.raised
  /\ lastGet.key \in DOMAIN store
  /\ JSONparse(store[lastGet.key].text).threw
  /\ lastGet.value = JsNull

\* C13 -- Cache round trip: a getCache on the key of the last setCache, both
\* made with the backend available, returns the value that was set when
\* fewer than ttl seconds have passed since the setCache (the last setCache
\* on the key, so an overwrite is what is read), and null when more than ttl
\* seconds have passed; for every value JSON.stringify accepts.
C13_RoundTrip ==
  [][ ( /\ GetStep
        /\ lastGet'.available
        /\ lastSet.available
        /\ lastGet'.key = lastSet.key
        /\ ~JSONstringify(lastSet.value).threw )
      => /\ now < lastSet.at + lastSet.ttl * 1000 => lastGet'.value = lastSet.value
         /\ now > lastSet.at + lastSet.ttl * 1000 => lastGet'.value = JsNull ]_vars

\* a string with a quote in it is read back, some time after it was set,
\* under a key built from the same parameters in another order
C13_Witness ==
  /\ lastSet.available /\ lastSet.value = Str(<<97, Quote>>)
  /\ lastGet # NoGet /\ lastGet.available
  /\ lastGet.key = lastSet.key /\ lastGet.params # lastSet.params
  /\ lastSet.at < now /\ now < lastSet.at + lastSet.ttl * 1000
  /\ lastGet.value = lastSet.value

\* (reached too: the value has expired)
C13_Expired ==
  /\ lastSet.available /\ lastSet.value = Num(10)
  /\ lastGet # NoGet /\ lastGet.available /\ lastGet.key = lastSet.key
  /\ now > lastSet.at + lastSet.ttl * 1000
  /\ lastGet.value = JsNull

\* the (name, value) pairs a parameter object holds
Pairs(params) == {params[i] : i \in 1..Len(params)}

\* endpoint and pairs written out in the order given
InOrder(endpoint, pairs) ==
  endpoint \o <<Colon>>
    \o Join([i \in 1..Len(pairs) |->
               pairs[i].name \o <<Colon>> \o ToStringJS(pairs[i].value)], <<Colon>>)

\* the arrangements of the pairs of params by increasing name
Arranged(params) ==
  {o \in [1..Len(params) -> Pairs(params)] :
     \A i, j \in 1..Len(params) : i < j => LexLess(o[i].name, o[j].name)}

\* C14 -- Deterministic cache key: the keys of two calls made with the same
\* endpoint and the same set of (name, value) pairs are the same string,
\* whatever the insertion order was, and that string lists the pairs by
\* increasing parameter name.
C14_DeterministicKey ==
  /\ ( /\ lastGet # NoGet /\ lastSet # NoSet
       /\ lastGet.endpoint = lastSet.endpoint
       /\ Pairs(lastGet.params) = Pairs(lastSet.params) )
     => lastGet.key = lastSet.key
  /\ \A c \in {lastGet, lastSet} \ {NoGet, NoSet} :
       \E o \in Arranged(c.params) : c.key = InOrder(c.endpoint, o)

\* the same pairs inserted in two orders, one of them not the sorted one
C14_Witness ==
  /\ lastGet # NoGet /\ lastSet # NoSet
  /\ Pairs(lastGet.params) = Pairs(lastSet.params)
  /\ lastGet.params # lastSet.params
  /\ lastGet.key = lastSet.key
  /\ \E c \in {lastGet} : Len(c.params) = 2

\* the method a wrapper call is made with, GET when none is given
MethodOf(r) == IF r.method = "" THEN "GET" ELSE r.method

SameRequest(r1, r2) ==
  /\ r1.dedupeKey = NoKey /\ r2.dedupeKey = NoKey
  /\ MethodOf(r1) = MethodOf(r2) /\ r1.url = r2.url /\ r1.body = r2.body

\* C15 -- Derived dedupe key: every fetchWithRateLimit call enqueues with a
\* non-empty key; and a call without a dedupe key, made while an earlier
\* call with the same method (GET when absent), url and body is unsettled
\* -- a call that created a QueuedRequest at most 5 minutes ago -- creates
\* no QueuedRequest and causes no invocation of its own.
C15_DerivedKey ==
  [][ \A g \in fetches' \ fetches :
        /\ callers'[g.id].key # NoKey
        /\ \A f \in fetches :
             ( /\ SameRequest(f.request, g.request)
               /\ callers[f.id].attached = Null
               /\ callers[f.id].status = "pending"
               /\ now - callers[f.id].enqueuedAt <= StaleMs )
             => /\ callers'[g.id].attached # Null
                /\ InvocationsIn(invocations', g.id) = {} ]_vars

\* the requests that have failed rate-limited at least once and are not
\* settled: waiting in a backoff delay, or queued, waiting for a slot or
\* executing again
InRetry == {q \in LiveRequests : q.retryCount > 0}

\* C16 -- In-flight entry survives retries: while a request with a dedupe
\* key is in a backoff delay or is executed again, and was registered at
\* most 5 minutes ago, the in-flight entry of its key is the one registered
\* for it, and a caller arriving with that key is attached to it.
C16_EntrySurvivesRetries ==
  [][ \A q \in InRetry :
        ( /\ q.dedupeKey # NoKey
          /\ now - callers[q.id].enqueuedAt <= StaleMs )
        => /\ q.dedupeKey \in DOMAIN inFlightRequests
           /\ inFlightRequests[q.dedupeKey].promise = q.id
           /\ ( /\ Len(callers') = Len(callers) + 1
                /\ callers'[Len(callers')].key = q.dedupeKey )
              => callers'[Len(callers')].attached = q.id ]_vars

\* C17 -- In-flight entry removal: an in-flight entry leaves the map (or is
\* replaced) only in the step that settles the operation it was registered
\* for, or when a lookup finds it older than 5 minutes; and the step that
\* settles an operation removes the entry registered for it.
C17_EntryRemoval ==
  [][ /\ \A k \in DOMAIN inFlightRequests :
           LET e == inFlightRequests[k]
           IN (k \notin DOMAIN inFlightRequests' \/ inFlightRequests'[k] # e)
              => \/ /\ callers[e.promise].status = "pending"
                    /\ callers'[e.promise].status # "pending"
                 \/ /\ Len(callers') = Len(callers) + 1
                    /\ now - e.timestamp > StaleMs
      /\ \A c \in Owners :
           ( /\ callers[c].status = "pending"
             /\ callers'[c].status # "pending"
             /\ callers[c].key \in DOMAIN inFlightRequests
             /\ inFlightRequests[callers[c].key].promise = c )
           => callers[c].key \notin DOMAIN inFlightRequests' ]_vars

\* C18 -- Atomic check-and-register: a call that creates a QueuedRequest
\* with a dedupe key registers its in-flight entry in the same step; and no
\* two calls with the same key whose lookups met no stale entry, made within
\* 5 minutes of each other, both create a QueuedRequest while the first is
\* unsettled.
C18_AtomicCheckAndRegister ==
  [][ LET n == Len(callers')
      IN ( /\ n = Len(callers) + 1
           /\ callers'[n].key # NoKey
           /\ callers'[n].attached = Null )
         => /\ inFlightRequests'[callers'[n].key] = [promise |-> n, timestamp |-> now]
            /\ \A f \in Owners :
                 ( /\ callers[f].key = callers'[n].key
                   /\ callers[f].status = "pending"
                   /\ callers[f].found # "stale"
                   /\ now - callers[f].enqueuedAt <= StaleMs )
                 => callers'[n].found = "stale" ]_vars

\* the resources a step works on: that of the call enqueued, of the
\* operation that settled, of the timer that fired
StepApis ==
  {callers'[i].api : i \in (1..Len(callers')) \ (1..Len(callers))}
    \cup {c.api : c \in running \ running'}
    \cup {t.api : t \in timers \ timers'}

C20_SoleRetrySignal == \A t \in RetryTimers : t.cause.from429

\* C21 -- Unregistered resource: for a name without a limiter canMakeRequest
\* answers allowed with no waitMs and recordRequest changes nothing, in
\* every state; no request of such a resource waits for a slot, and each is
\* executed in the step that enqueued it.
C21_UnregisteredResource ==
  \A name \in Resources \ DOMAIN limiters :
    /\ canMakeRequest(limiters, name, now) =
         [allowed |-> TRUE, waitMs |-> Undefined, limiters |-> limiters]
    /\ recordRequest(limiters, name, now) = limiters
    /\ \A t \in timers : t.kind = "wait" => t.api # name
    /\ \A c \in Owners :
         callers[c].api = name =>
           \E i \in InvocationsOf(c) : invocations[i].at = callers[c].enqueuedAt

\* four requests of the unregistered resource were executed at the same
\* instant, where a registered resource admits one per window
C21_Witness ==
  /\ Unregistered \notin DOMAIN limiters
  /\ Cardinality({c \in Owners : callers[c].api = Unregistered
                                 /\ callers[c].enqueuedAt = 0}) >= 4
  /\ Cardinality({i \in 1..Len(invocations) :
                    invocations[i].api = Unregistered /\ invocations[i].at = 0}) >= 4
  /\ \A a \in DOMAIN limiters : limiters[a].maxRequests = 1

\* the drain cycles of a resource that are under way: suspended on an
\* executing operation, or in a rate-limit wait
ActiveCycles(a) ==
  {c \in running : c.api = a} \cup {t \in timers : t.kind = "wait" /\ t.api = a}

\* C22 -- Single drain cycle per resource: at any time at most one drain
\* cycle of a resource is under way, so at most one operation of a resource
\* is executing or in a rate-limit wait.
C22_SingleDrainCycle == \A a \in Resources : Cardinality(ActiveCycles(a)) <= 1

\* the times at which the queue called an operation of resource a, in order
InvocationTimes(a, since) ==
  LET calls == SelectSeq(invocations, LAMBDA v : v.api = a /\ v.at > since)
  IN [i \in 1..Len(calls) |-> calls[i].at]

\* the entries of a list that are equal to x
Occurrences(ts, x) == Len(SelectSeq(ts, LAMBDA y : y = x))

\* C23 -- Record before invoke: at every yield point the timestamps of a
\* registered resource that lie in its window are exactly the times of the
\* operation invocations made on it in that window (first attempts and
\* retries, failed ones included), one timestamp per invocation.
C23_RecordBeforeInvoke ==
  \A a \in DOMAIN limiters :
    /\ InWindow(a) = InvocationTimes(a, now - limiters[a].windowMs)
    /\ \A i \in 1..Len(limiters[a].timestamps) :
         Occurrences(limiters[a].timestamps, limiters[a].timestamps[i])
           <= Len(SelectSeq(invocations,
                LAMBDA v : v.api = a /\ v.at = limiters[a].timestamps[i]))

\* the window is full of a retry and of an attempt that has already failed,
\* and a third request is kept waiting by them
C23_Witness ==
  \E a \in DOMAIN limiters : \E i, j \in 1..Len(invocations) :
    /\ invocations[i].api = a /\ invocations[j].api = a
    /\ invocations[i].retryCount = 1
    /\ invocations[i].at > now - limiters[a].windowMs
    /\ invocations[j].id # invocations[i].id
    /\ invocations[j].at > now - limiters[a].windowMs
    /\ callers[invocations[j].id].status = "rejected"
    /\ Len(InWindow(a)) = 2
    /\ \E t \in timers : t.kind = "wait" /\ t.api = a

Max(x, y) == IF x >= y THEN x ELSE y

\* C24 -- canMakeRequest result: for a registered resource the call leaves in
\* the list exactly the timestamps ts with ts > now - windowMs, in their
\* order, and appends none; it answers allowed if and only if fewer than
\* maxRequests timestamps remain, and otherwise not allowed with
\* waitMs = max(0, oldest remaining timestamp + windowMs - now).  The lists
\* of the other resources are not touched.
C24_CanMakeRequestResult ==
  \A a \in DOMAIN limiters :
    LET r == canMakeRequest(limiters, a, now)
        before == limiters[a].timestamps
        after == r.limiters[a].timestamps
        dropped == {i \in 1..Len(before) : before[i] <= now - limiters[a].windowMs}
    IN /\ after = SelectSeq(before, LAMBDA ts : ~(ts <= now - limiters[a].windowMs))
       /\ Len(after) = Len(before) - Cardinality(dropped)
       /\ r.allowed <=> Len(after) < limiters[a].maxRequests
       /\ r.allowed => r.waitMs = Undefined
       /\ ~r.allowed =>
            r.waitMs = Max(0, after[1] + limiters[a].windowMs - now)
       /\ r.limiters[a].maxRequests = limiters[a].maxRequests
       /\ r.limiters[a].windowMs = limiters[a].windowMs
       /\ \A b \in DOMAIN limiters \ {a} : r.limiters[b] = limiters[b]

\* a full window whose oldest entry is 500 ms old: the call is refused with
\* the 500 ms that remain
C24_Witness ==
  \E a \in DOMAIN limiters :
    /\ Len(limiters[a].timestamps) = limiters[a].maxRequests
    /\ limiters[a].timestamps[1] = now - 500
    /\ canMakeRequest(limiters, a, now).allowed = FALSE
    /\ canMakeRequest(limiters, a, now).waitMs = 500
    /\ \E t \in timers : t.kind = "wait" /\ t.api = a /\ t.delay = 500

\* request q stands somewhere the queue can run it from: in a queue, in the
\* batch of a drain cycle, or already called
Held(q) ==
  \/ \E a \in Resources : \E i \in 1..Len(queues[a]) : queues[a][i] = q
  \/ \E c \in running : \E i \in 1..Len(c.batch) : c.batch[i] = q
  \/ \E t \in timers : t.kind # "retry" /\ \E i \in 1..Len(t.batch) : t.batch[i] = q
  \/ \E i \in InvocationsOf(q.id) : invocations[i].retryCount = q.retryCount

\* the step that runs the callback of retry timer t
RetryFires(t) == t \in timers /\ t.kind = "retry" /\ t \notin timers'

\* the drain cycles of resource a that the step starts
Started(a) ==
  {c \in running' \ running : c.api = a}
    \cup {w \in timers' \ timers : w.kind = "wait" /\ w.api = a}

\* C25 -- Retry timing and position: a retry is scheduled only by a
\* rate-limited failure with retryCount < maxRetries, for the computed
\* backoff delay counted from the failure; until that delay has elapsed the
\* retry copy is in no queue and its operation is not invoked; the step in
\* which the delay has elapsed puts the copy ahead of every request queued on
\* its resource and starts a drain cycle with the copy at its head.
C25_RetryTimingAndPosition ==
  /\ [](\A t \in RetryTimers : ~Held(t.batch[1]))
  /\ [][/\ \A t \in timers' \ timers :
             t.kind = "retry" =>
               /\ isRateLimitError(t.cause) /\ t.from.retryCount < maxRetries
               /\ t.batch[1].id = t.from.id
               /\ t.delay = calculateBackoffDelay(t.from.retryCount, t.batch[1].retryAfter)
               /\ t.deadline = now + t.delay
        /\ \A t \in timers :
             RetryFires(t) =>
               /\ now >= t.deadline
               /\ \E d \in Started(t.api) :
                    /\ d.batch[1] = t.batch[1]
                    /\ Tail(d.batch) \o queues'[t.api] = queues[t.api]
               /\ (Started(t.api) \cap running' # {}) =>
                    /\ Len(invocations') = Len(invocations) + 1
                    /\ invocations'[Len(invocations')].id = t.batch[1].id
                    /\ invocations'[Len(invocations')].at >= t.deadline]_vars

\* a retry copy has just been called, not before its backoff delay was over
C25_Witness ==
  /\ now >= baseBackoffDelay
  /\ Len(invocations) >= 2
  /\ invocations[Len(invocations)].retryCount = 2
  /\ invocations[Len(invocations)].at = now
  /\ \E c \in running : c.batch[1].id = invocations[Len(invocations)].id
                         /\ c.batch[1].retryCount = 2

\* (an invariant: every handler that puts a request in a queue calls
\* processBatch, which takes it out again before its first await)
QueuesEmpty == \A a \in Resources : queues[a] = <<>>

\* the hint of the latest attempt that carried one, Undefined when none did
RECURSIVE LatestHint(_)
LatestHint(attempts) ==
  IF attempts = <<>> THEN Undefined
  ELSE IF attempts[Len(attempts)].retryAfter # Undefined
    THEN attempts[Len(attempts)].retryAfter
    ELSE LatestHint(SubSeq(attempts, 1, Len(attempts) - 1))

\* C26 -- Retry copy: the copy has retryCount one greater than the request it
\* replaces and the same operation, caller channels and dedupe key; it
\* carries the newest server hint observed on any failure of the request so
\* far, and a failure without a hint is retried after that carried hint
\* instead of the exponential delay.
C26_RetryCopy ==
  \A t \in RetryTimers :
    LET copy == t.batch[1]
        hint == LatestHint(callers[copy.id].attempts)
    IN /\ copy.retryCount = t.from.retryCount + 1
       /\ copy.id = t.from.id
       /\ copy.dedupeKey = t.from.dedupeKey
       /\ copy.retryAfter = hint
       /\ (t.cause.retryAfter = Undefined /\ hint # Undefined) =>
            t.delay = hint * 1000

\* the callers waiting on the request of caller p: p and those attached to it
WaitingOn(p) == {p} \cup {c \in Ids : callers[c].attached = p}

\* what the queue holds of the request of caller p
Progress(p) ==
  [invoked |-> InvocationsOf(p),
   running |-> {c \in running : c.batch[1].id = p},
   timers |-> {t \in timers : t.batch # <<>> /\ t.batch[1].id = p}]

\* C27 -- Staleness window: a caller whose dedupe key has an in-flight entry
\* is attached to it if and only if the entry is at most 5 minutes old, the
\* age being counted from the registration (no step changes the timestamp of
\* an entry); past 5 minutes the caller gets a QueuedRequest of its own and
\* the entry becomes [that request, now], while the request of the old entry
\* goes on unchanged; and the callers waiting on a request always share its
\* fate, also after its entry has been replaced.
C27_StalenessWindow ==
  /\ [](\A c \in Ids :
          callers[c].attached # Null =>
            /\ callers[c].status = callers[callers[c].attached].status
            /\ callers[c].outcome = callers[callers[c].attached].outcome)
  /\ [][/\ \A k \in DOMAIN inFlightRequests \cap DOMAIN inFlightRequests' :
             inFlightRequests'[k].promise = inFlightRequests[k].promise =>
               inFlightRequests'[k].timestamp = inFlightRequests[k].timestamp
        /\ Len(callers') = Len(callers) + 1 =>
             \A k \in DOMAIN inFlightRequests \ {NoKey} : \A p \in Ids :
               (callers'[Len(callers')].key = k /\ inFlightRequests[k].promise = p) =>
                 LET c == Len(callers) + 1
                     fresh == now - inFlightRequests[k].timestamp <= StaleMs
                 IN /\ callers'[c].attached # Null <=> fresh
                    /\ fresh =>
                         /\ callers'[c].attached = p
                         /\ inFlightRequests' = inFlightRequests
                         /\ Len(invocations') = Len(invocations)
                    /\ ~fresh =>
                         /\ inFlightRequests'[k] = [promise |-> c, timestamp |-> now]
                         /\ c \in {q.id : q \in LiveRequests'}
                         /\ Progress(p)' = Progress(p)
                         /\ \A w \in WaitingOn(p) : callers'[w] = callers[w]]_vars

\* the entry of request 1 was replaced after more than 5 minutes by the
\* request of caller 3; request 1 then finished and settled caller 1 and the
\* caller attached to it, while request 3 is still pending
C27_Witness ==
  /\ Len(callers) >= 3
  /\ callers[1].key # NoKey
  /\ callers[2].attached = 1
  /\ callers[3].key = callers[1].key /\ callers[3].attached = Null
  /\ callers[3].found = "stale"
  /\ callers[3].enqueuedAt - callers[1].enqueuedAt > StaleMs
  /\ callers[1].status = "resolved" /\ callers[2].status = "resolved"
  /\ callers[3].status = "pending"
  /\ Cardinality(InvocationsOf(1)) >= 2

\* the attempts of the operations built by fetchWithRateLimit that received
\* a response: <<caller, index>>
Answered ==
  {x \in UNION {{<<f.id, i>> : i \in 1..Len(callers[f.id].attempts)} : f \in fetches} :
     callers[x[1]].attempts[x[2]].response # NoResponse}

\* the header text is the decimal numeral of n, possibly followed by other
\* characters
StartsWithNumeral(text, n) ==
  LET d == Digits(n)
  IN /\ Len(text) >= Len(d)
     /\ SubSeq(text, 1, Len(d)) = d
     /\ Len(text) > Len(d) => text[Len(d) + 1] \notin 48..57

MaxHint == 400

\* C28 -- Wrapper classification: an attempt of the wrapper's operation that
\* received a response fails, with a failure the queue classifies as
\* rate-limited, if and only if the status is 429; the failure carries the
\* integer read from the Retry-After header when the header holds one, no
\* hint when the header is absent, and no number at all when the header
\* holds none; a response with any other status is the resolved value of the
\* caller and that attempt is the last one of the request.
C28_WrapperClassification ==
  \A x \in Answered :
    LET c == x[1]
        e == callers[c].attempts[x[2]]
        h == e.response.retryAfter
    IN /\ ~e.ok <=> e.response.status = 429
       /\ e.response.status = 429 =>
            /\ isRateLimitError(e) /\ e.from429
            /\ ~h.present => e.retryAfter = Undefined
            /\ \A n \in 0..MaxHint :
                 (h.present /\ StartsWithNumeral(h.text, n)) => e.retryAfter = n
            /\ (\A n \in 0..MaxHint : ~(h.present /\ StartsWithNumeral(h.text, n)))
                 => e.retryAfter \notin Nat
       /\ e.response.status # 429 =>
            /\ x[2] = Len(callers[c].attempts)
            /\ callers[c].status = "resolved"
            /\ callers[c].outcome = e
            /\ \A q \in LiveRequests : q.id # c

\* a 429 with `Retry-After: 1` was retried after its hint and the retry got
\* a 503 that still carried a Retry-After header: the caller has the 503
C28_Witness ==
  \E f \in fetches :
    LET a == callers[f.id].attempts
    IN /\ Len(a) = 2
       /\ a[1].response = Response(429, Header(<<49>>))
       /\ a[1].retryAfter = 1
       /\ a[2].response = Response(503, Header(<<49>>))
       /\ callers[f.id].status = "resolved"
       /\ callers[f.id].outcome.response.status = 503
       /\ invocations[2].at = 1000

\* the callers the step rejects
Rejected == {c \in Ids : callers[c].status = "pending" /\ callers'[c].status = "rejected"}

\* the last attempt of the request of caller p
LastAttempt(p) == callers[p].attempts[Len(callers[p].attempts)]

\* C29 -- Failure isolation: a step that rejects callers rejects exactly the
\* pending callers waiting on one request, whose attempt has just ended in a
\* failure that is not retried; every other caller, every other executing
\* operation and every pending timer is left as it was; and a request that
\* has settled has settled with the outcome of its own last attempt.
C29_FailureIsolation ==
  /\ [](\A p \in Owners :
          callers[p].status # "pending" =>
            /\ callers[p].attempts # <<>>
            /\ callers[p].status = "resolved" <=> LastAttempt(p).ok
            /\ callers[p].outcome \in {LastAttempt(p), ToError(LastAttempt(p))})
  /\ [][Rejected # {} =>
          \E p \in Owners :
            /\ Rejected = {w \in WaitingOn(p) : callers[w].status = "pending"}
            /\ p \in Rejected
            /\ Len(callers'[p].attempts) = Len(callers[p].attempts) + 1
            /\ ~LastAttempt(p)'.ok
            /\ ~shouldRetry(LastAttempt(p)', Len(callers[p].attempts))
            /\ \A w \in Rejected : callers'[w].outcome = callers'[p].outcome
            /\ \A c \in Ids \ WaitingOn(p) : callers'[c] = callers[c]
            /\ \A c \in running : c.batch[1].id # p => c \in running'
            /\ timers \subseteq timers'
            /\ \A q \in LiveRequests : q.id # p => q \in LiveRequests']_vars

\* request 1 and the caller attached to it are rejected while the operation
\* of request 3, started before that failure, is still executing
C29_Witness ==
  /\ Len(callers) >= 3
  /\ callers[1].status = "rejected"
  /\ callers[2].attached = 1 /\ callers[2].status = "rejected"
  /\ callers[3].attached = Null /\ callers[3].status = "pending"
  /\ \E c \in running : c.batch[1].id = 3
  /\ \E i \in InvocationsOf(3) : \E j \in InvocationsOf(1) : i < j

\* C30 -- Verbatim failure: a rejected caller holds the very value thrown by
\* the final attempt of its request's operation, whatever kind of value that
\* is.
C30_VerbatimFailure ==
  \A c \in Ids :
    callers[c].status = "rejected" =>
      LET p == IF callers[c].attached # Null THEN callers[c].attached ELSE c
      IN callers[c].outcome = LastAttempt(p)

NonDecreasing(ts) == \A i, j \in 1..Len(ts) : i <= j => ts[i] <= ts[j]

AllAfter(ts, t) == \A i \in 1..Len(ts) : ts[i] > t

\* C31 -- Limiter list shape: the timestamp list of a registered resource is
\* always in non-decreasing order; right after a canMakeRequest or a
\* recordRequest on the resource it holds only timestamps > now - windowMs
\* (so does the list left by every step that changes it); and maxRequests
\* and windowMs of a limiter never change.
C31_LimiterListShape ==
  /\ [](\A a \in DOMAIN limiters :
          LET windowStart == now - limiters[a].windowMs
          IN /\ NonDecreasing(limiters[a].timestamps)
             /\ AllAfter(canMakeRequest(limiters, a, now).limiters[a].timestamps, windowStart)
             /\ AllAfter(recordRequest(limiters, a, now)[a].timestamps, windowStart)
             /\ NonDecreasing(recordRequest(limiters, a, now)[a].timestamps))
  /\ [][/\ DOMAIN limiters' = DOMAIN limiters
        /\ \A a \in DOMAIN limiters :
             /\ limiters'[a].maxRequests = limiters[a].maxRequests
             /\ limiters'[a].windowMs = limiters[a].windowMs
             /\ limiters'[a].timestamps # limiters[a].timestamps =>
                  AllAfter(limiters'[a].timestamps, now - limiters[a].windowMs)]_vars

\* two calls at different times are in the list in their order, and an
\* older call has been pruned from it
C31_Witness ==
  \E a \in DOMAIN limiters :
    LET ts == limiters[a].timestamps
    IN /\ Len(ts) = 2 /\ ts[1] < ts[2]
       /\ \E i \in 1..Len(invocations) :
            invocations[i].api = a /\ invocations[i].at < ts[1]

\* C32 -- Queue emptiness: whenever control is back in the event loop the
\* queue of every resource is empty; every drain cycle holds exactly one
\* request, so batchSize is never reached; and the 100 ms follow-up drain is
\* never scheduled.
C32_QueueEmptiness ==
  /\ \A a \in Resources : Len(queues[a]) = 0
  /\ \A c \in running : Len(c.batch) = 1 /\ Len(c.batch) < batchSize
  /\ \A t \in timers :
       /\ t.kind \in {"wait", "retry"}
       /\ Len(t.batch) = 1
       /\ t.delay # InterBatchDelay

\* four requests enqueued at the same instant on one resource: two are
\* executing and two wait for a slot, each in a drain cycle of its own
C32_Witness ==
  \E a \in DOMAIN limiters :
    /\ Cardinality({c \in Ids : callers[c].api = a /\ callers[c].enqueuedAt = 0
                                 /\ callers[c].attached = Null}) = 4
    /\ Cardinality({c \in running : c.api = a}) = 2
    /\ Cardinality({t \in timers : t.kind = "wait" /\ t.api = a}) = 2
    /\ queues[a] = <<>>
    /\ now = 0

\* C33 -- No leaked in-flight entry: every entry of the in-flight map was
\* created for a request that is still unsettled and still held by the queue
\* (in a queue, waiting for a slot, executing, or in a backoff delay), under
\* that request's dedupe key; no entry refers to a request that has resolved
\* or rejected.
C33_NoLeakedEntry ==
  /\ \A k \in DOMAIN inFlightRequests :
       LET p == inFlightRequests[k].promise
       IN /\ p \in Owners
          /\ callers[p].key = k
          /\ callers[p].status = "pending"
          /\ \E q \in LiveRequests : q.id = p
          /\ inFlightRequests[k].timestamp = callers[p].enqueuedAt
  /\ \A p \in Owners :
       callers[p].status # "pending" =>
         \A k \in DOMAIN inFlightRequests : inFlightRequests[k].promise # p

\* a keyed request has settled after a retry and its key has left the map,
\* while the entry of another request, still executing, is in the map
C33_Witness ==
  /\ \E p \in Owners :
       /\ callers[p].key # NoKey
       /\ callers[p].status # "pending"
       /\ Len(callers[p].attempts) >= 2
       /\ callers[p].key \notin DOMAIN inFlightRequests
  /\ \E k \in DOMAIN inFlightRequests : \E c \in running :
       c.batch[1].id = inFlightRequests[k].promise

\* the copies of the request of caller p that the queue holds
Copies(p) == {q \in LiveRequests : q.id = p}

\* the retry timers the step schedules for the request of caller p
RetriesScheduled(p) ==
  {t \in timers' \ timers : t.kind = "retry" /\ t.batch[1].id = p}

\* C34 -- Exactly-once settlement: a pending request is held by the queue in
\* exactly one copy and a settled one in none, so nothing is left to settle
\* it again; each attempt ends in exactly one of resolve, reject, or the
\* scheduling of one retry timer; the channels are used only at the end of an
\* attempt; and a caller that has settled keeps its status and outcome.
\* (That a request does settle is C4.)
C34_ExactlyOnceSettlement ==
  /\ [](\A p \in Owners :
          /\ Cardinality(Copies(p)) = (IF callers[p].status = "pending" THEN 1 ELSE 0)
          /\ Cardinality(InvocationsOf(p)) - Len(callers[p].attempts) =
               Cardinality({c \in running : c.batch[1].id = p})
          /\ Cardinality({c \in running : c.batch[1].id = p}) <= 1)
  /\ [][/\ \A p \in Owners :
             LET ended == Len(callers'[p].attempts) = Len(callers[p].attempts) + 1
                 resolved == callers[p].status = "pending" /\ callers'[p].status = "resolved"
                 rejected == callers[p].status = "pending" /\ callers'[p].status = "rejected"
                 retried == RetriesScheduled(p) # {}
             IN /\ ended =>
                     /\ callers[p].status = "pending"
                     /\ Cardinality(RetriesScheduled(p)) <= 1
                     /\ \/ resolved /\ ~rejected /\ ~retried
                        \/ rejected /\ ~resolved /\ ~retried
                        \/ retried /\ ~resolved /\ ~rejected
                /\ ~ended =>
                     /\ callers'[p].status = callers[p].status
                     /\ ~retried
                     /\ Len(callers'[p].attempts) = Len(callers[p].attempts)
        /\ \A c \in Ids :
             callers[c].status # "pending" =>
               /\ callers'[c].status = callers[c].status
               /\ callers'[c].outcome = callers[c].outcome]_vars

\* a request was retried twice and then resolved; nothing of it is left
C34_Witness ==
  \E p \in Owners :
    /\ Len(callers[p].attempts) = 3
    /\ Cardinality(InvocationsOf(p)) = 3
    /\ ~callers[p].attempts[1].ok /\ ~callers[p].attempts[2].ok
    /\ callers[p].attempts[3].ok
    /\ callers[p].status = "resolved"
    /\ Copies(p) = {}

\* C35 -- Dedupe map shared across resources: a call on resource B with a
\* key whose entry, not stale, belongs to a request of another resource A is
\* attached to that request: nothing is put on B's queue, no operation is
\* invoked for it, then or later, B's limiter records nothing in that step,
\* and the caller gets the outcome of A's request.
C35_SharedDedupeMap ==
  /\ [](\A c \in Ids :
          callers[c].attached # Null =>
            /\ InvocationsOf(c) = {}
            /\ \A q \in LiveRequests : q.id # c
            /\ callers[c].status = callers[callers[c].attached].status
            /\ callers[c].outcome = callers[callers[c].attached].outcome)
  /\ [][Len(callers') = Len(callers) + 1 =>
          \A k \in DOMAIN inFlightRequests \ {NoKey} : \A b \in Resources :
            LET n == Len(callers) + 1
                p == inFlightRequests[k].promise
            IN ( /\ callers'[n].key = k /\ callers'[n].api = b
                 /\ callers[p].api # b
                 /\ now - inFlightRequests[k].timestamp <= StaleMs )
               => /\ callers'[n].attached = p
                  /\ queues' = queues
                  /\ invocations' = invocations
                  /\ limiters' = limiters
                  /\ timers' = timers /\ running' = running
                  /\ inFlightRequests' = inFlightRequests]_vars

\* a caller on getsongbpm shares the result of a request on discogs; nothing
\* was ever recorded or invoked on getsongbpm
C35_Witness ==
  \E c \in Ids :
    /\ callers[c].attached # Null
    /\ callers[c].api = "getsongbpm"
    /\ callers[callers[c].attached].api = "discogs"
    /\ callers[c].status = "resolved"
    /\ callers[c].outcome = callers[callers[c].attached].outcome
    /\ limiters["getsongbpm"].timestamps = <<>>
    /\ \A i \in 1..Len(invocations) : invocations[i].api = "discogs"

\* the parameter object as a set of name/value pairs
ParamSet(params) == {params[i] : i \in 1..Len(params)}

\* C36 -- Cache key injectivity: two calls that use the same cache key were
\* made for the same endpoint and the same parameter set, whatever the
\* parameter values contain.
C36_KeyInjectivity ==
  (lastSet # NoSet /\ lastGet # NoGet /\ lastGet.key = lastSet.key) =>
    /\ lastGet.endpoint = lastSet.endpoint
    /\ ParamSet(lastGet.params) = ParamSet(lastSet.params)

ClientPromiseIds == 1..Len(clientPromises)

\* the call the step makes, when it makes one
ClientCallMade == Len(clientCalls') = Len(clientCalls) + 1

\* C37 -- Client-side dedupe: while the request registered under a key is
\* pending, every further getOrCreateRequest with that key returns the
\* promise of that request and invokes no requestFn; once that promise has
\* settled, fulfilled or rejected, the key is no longer mapped to it, and a
\* call with a key that is not in the map invokes its requestFn and registers
\* a new promise.
C37_ClientDedupe ==
  /\ [](\A p \in ClientPromiseIds :
          LET k == clientPromises[p].key
          IN /\ clientPromises[p].request = "pending" =>
                  k \in DOMAIN clientInFlight /\ clientInFlight[k] = p
             /\ clientPromises[p].status # "pending" =>
                  ~(k \in DOMAIN clientInFlight /\ clientInFlight[k] = p))
  /\ [][ClientCallMade =>
          LET call == clientCalls'[Len(clientCalls')]
          IN /\ \A p \in ClientPromiseIds :
                  (clientPromises[p].key = call.key
                     /\ clientPromises[p].request = "pending") =>
                    /\ call.returned = p
                    /\ ~call.invoked
                    /\ clientPromises' = clientPromises
                    /\ clientInFlight' = clientInFlight
             /\ call.key \notin DOMAIN clientInFlight =>
                  /\ call.invoked
                  /\ call.returned = Len(clientPromises) + 1
                  /\ Len(clientPromises') = Len(clientPromises) + 1
                  /\ clientPromises'[call.returned].request = "pending"
                  /\ clientInFlight'[call.key] = call.returned]_vars

\* one key: a request, a second call that shared it, its failure, and a
\* third call that issued a new request
C37_Witness ==
  /\ Len(clientCalls) >= 3
  /\ clientCalls[1].key = clientCalls[2].key /\ clientCalls[2].key = clientCalls[3].key
  /\ clientCalls[1].invoked /\ ~clientCalls[2].invoked /\ clientCalls[3].invoked
  /\ clientCalls[2].returned = clientCalls[1].returned
  /\ clientCalls[3].returned # clientCalls[1].returned
  /\ clientPromises[clientCalls[1].returned].status = "rejected"
  /\ clientPromises[clientCalls[3].returned].request = "pending"

\* queue contents to try setRetryAfter on: up to two of the requests that
\* exist, put in the queue of resource a
QueuesWith(a) ==
  {queues} \cup {[queues EXCEPT ![a] = <<r>>] : r \in LiveRequests}
    \cup {[queues EXCEPT ![a] = <<x[1], x[2]>>] :
            x \in {y \in LiveRequests \X LiveRequests : y[1].id <= y[2].id}}

\* the attempts of wrapper operations that called setRetryAfter (a 429 whose
\* hint is not undefined), as <<caller, index>>
HintSet ==
  {x \in Answered :
     /\ callers[x[1]].attempts[x[2]].response.status = 429
     /\ callers[x[1]].attempts[x[2]].retryAfter # Undefined}

\* C38 -- setRetryAfter frame: on any queue contents of the resource of an
\* executing operation (the only caller) the call changes at
\* most the retryAfter field of the first request of that resource's queue
\* whose dedupe key is the given key, and returns the queues as they are
\* when there is none; called from the executing operation it changes
\* nothing, the queues being empty, and the retry copy gets its hint from
\* the thrown failure (or the hint the request already carried).
C38_SetRetryAfterFrame ==
  /\ [](\A a \in {c.api : c \in running} : \A qs \in QueuesWith(a) :
          \A key \in {qs[a][i].dedupeKey : i \in 1..Len(qs[a])} \cup {"none"} : \A h \in {7} :
            LET after == setRetryAfter(qs, a, key, h)
                hits == {i \in 1..Len(qs[a]) : qs[a][i].dedupeKey = key}
            IN /\ \A b \in Resources \ {a} : after[b] = qs[b]
               /\ Len(after[a]) = Len(qs[a])
               /\ hits = {} => after = qs
               /\ \A i \in 1..Len(qs[a]) :
                    IF i \in hits /\ \A j \in hits : i <= j
                      THEN after[a][i] = [qs[a][i] EXCEPT !.retryAfter = h]
                      ELSE after[a][i] = qs[a][i])
  /\ [](\A t \in RetryTimers :
          t.batch[1].retryAfter = OrRetryAfter(t.cause.retryAfter, t.from.retryAfter))
  /\ [][\A x \in HintSet' \ HintSet :
          /\ setRetryAfter(queues, callers[x[1]].api, callers[x[1]].key,
                           callers'[x[1]].attempts[x[2]].retryAfter) = queues
          /\ queues' = queues]_vars

\* the operation of a keyed request got a 429 with `Retry-After: 400` and
\* called setRetryAfter while another request was executing: the queues are
\* as they were and the retry copy carries the hint of the failure
C38_Witness ==
  \E x \in HintSet : \E t \in RetryTimers :
    /\ t.batch[1].id = x[1]
    /\ callers[x[1]].attempts[x[2]].retryAfter = 400
    /\ t.from.retryAfter = Undefined
    /\ t.batch[1].retryAfter = 400
    /\ \A a \in Resources : queues[a] = <<>>
    /\ \E c \in running : c.batch[1].id # x[1]

\* the step is a createRateLimiter call (or a second initializeRateLimiters)
Creates == budget'.creates = budget.creates - 1

\* C39 -- createRateLimiter idempotence: for a registered name the call
\* returns the limiter that exists and leaves the map as it is, whatever
\* limits are passed; a step that makes the call changes no limit and no
\* timestamp of a limiter that existed; and no step removes a limiter.
C39_CreateIdempotence ==
  /\ [](\A name \in DOMAIN limiters : \A l \in Limits :
          /\ createRateLimiter(limiters, name, l.maxRequests, l.windowMs).limiter = limiters[name]
          /\ createRateLimiter(limiters, name, l.maxRequests, l.windowMs).limiters = limiters)
  /\ [][/\ DOMAIN limiters \subseteq DOMAIN limiters'
        /\ \A name \in DOMAIN limiters :
             /\ limiters'[name].maxRequests = limiters[name].maxRequests
             /\ limiters'[name].windowMs = limiters[name].windowMs
             /\ Creates => limiters'[name] = limiters[name]]_vars

\* createRateLimiter was called for discogs with other limits after calls
\* had been recorded: the limiter has its first limits and its timestamps
C39_Witness ==
  /\ budget.lastCreate.name = "discogs"
  /\ budget.lastCreate.maxRequests = 1
  /\ limiters["discogs"].maxRequests = 25
  /\ limiters["discogs"].windowMs = 60000
  /\ Len(limiters["discogs"].timestamps) >= 2
  /\ limiters["discogs"].timestamps[1] < budget.lastCreate.at

====
